---- MODULE Spec2Model ----
(***************************************************************************)
(* A model of the Fotoware asset proxy: the capability tokens and the     *)
(* QueryHeaderAuth gate (src/app/apptoken.py), the resource identifiers    *)
(* (src/app/resource_identifier.py) and the endpoints that serve binary    *)
(* content behind the gate (src/app/routers/doc_img.py, src/app/main.py,   *)
(* src/app/renderers/reprs.py).                                            *)
(*                                                                         *)
(* Spec      one request given to one gate.                                *)
(* SpecLife  one token from its issue to after its expiry.                 *)
(* SpecServe one request given to an endpoint that serves binary content.  *)
(* SpecFind, SpecPreview, SpecKey, SpecSingle, SpecUpdate  one call of     *)
(*           find_rendition, find_appropriate_preview, reprs.cachekey,     *)
(*           find_single, exec_update_tasks.                               *)
(* SpecCache calls of filerendition and filepreview over one cache.        *)
(* SpecRedis, SpecStream  the retry loops of try_redis and                 *)
(*           stream_get_binary, attempt by attempt.                        *)
(* SpecRace  two calls of filerendition interleaved at their awaits.       *)
(* SpecToken calls of access_token as the clock advances.                  *)
(* SpecRestart  SpecLife with restarts of the process.                     *)
(* SpecWork  the worker and webhook endpoints and their background tasks.  *)
(* SpecGate  one request given to the gate of each route.                  *)
(*                                                                         *)
(* jwt.decode is modelled on PyJWT 2.6 and later, the f-string of an Enum  *)
(* member on Python 3.11 and later.                                        *)
(*                                                                         *)
(* Python strings are modelled as sequences of one-character strings, so   *)
(* that startswith, removeprefix, `in` and split are computed, not         *)
(* assumed.  A dict is a function whose DOMAIN is its set of keys.         *)
(* Timestamps are POSIX seconds; the clock `now` holds the whole seconds   *)
(* of the wall clock.                                                      *)
(***************************************************************************)
EXTENDS Integers, Sequences, FiniteSets, TLC

VARIABLES
    secret,     \* config.JWT_SECRET of the running process
    zone,       \* the time zone the process runs in (TZ of the host)
    now,        \* the wall clock, whole POSIX seconds
    request,    \* the request most recently given to a gate
    gate,       \* the QueryHeaderAuth instance that request was given to
    at,         \* the instant at which the gate handled it
    decoded,    \* what sub_aud_dur_claims gave the gate for it
    outcome,    \* what QueryHeaderAuth.__call__ did with it
    issued,     \* SpecLife: the token the client holds and how it was made
    resp,       \* the endpoint's response to the request
    archive,    \* the assets the Fotoware archive holds
    cache,      \* the binary cache behind persistence.get and persistence.set
    background, \* the background tasks queued for after the response
    args,       \* the arguments of the function under call
    ret,        \* what its calls returned, in order
    wrapper,    \* the frame of a try_redis wrapper: its retries and attempts
    frames,     \* the frames of the calls in flight, one per request or task
    upstream,   \* the requests made of Fotoware for the work in hand, in order
    cacheops    \* the reads and writes of the cache made for the request in hand

vars == <<secret, zone, now, request, gate, at, decoded, outcome, issued, resp,
          archive, cache, background, args, ret, wrapper, frames, upstream, cacheops>>

----------------------------------------------------------------------------
(* Strings *)

\* s.startswith(p)
startswith(s, p) == Len(p) <= Len(s) /\ SubSeq(s, 1, Len(p)) = p

\* s.removeprefix(p)
removeprefix(s, p) == IF startswith(s, p) THEN SubSeq(s, Len(p) + 1, Len(s)) ELSE s

\* c in s, for a one-character c
contains(s, c) == \E i \in 1..Len(s) : s[i] = c

\* s.split(c, maxsplit=1): a list of one or two strings
split1(s, c) ==
    IF contains(s, c)
    THEN LET i == CHOOSE i \in 1..Len(s) :
                     s[i] = c /\ \A j \in 1..(i - 1) : s[j] # c
         IN <<SubSeq(s, 1, i - 1), SubSeq(s, i + 1, Len(s))>>
    ELSE <<s>>

\* dict.get(k, default)
get(d, k, default) == IF k \in DOMAIN d THEN d[k] ELSE default

----------------------------------------------------------------------------
(* class TokenAud(str, Enum): the members, by value *)

NONE == <<"z", "z", "z">>
PreviewAsset == <<"p", "r", "e">>
RenderAsset == <<"r", "n", "d">>
RenderAssetOriginal == <<"o", "r", "i">>
RenderFullManifest == <<"j", "l", "d">>
UpdateAssetMetadata == <<"u", "i", "d">>

TokenAudMembers ==
    {NONE, PreviewAsset, RenderAsset, RenderAssetOriginal,
     RenderFullManifest, UpdateAssetMetadata}

\* What TokenAud(value) raises ValueError for is not a string of the model.
ValueError == <<"ValueError">>

\* A plausible slip: an unknown audience falls back to the sentinel member.
TokenAud_fallback(value) == IF value \in TokenAudMembers THEN value ELSE NONE

\* TokenAud(value): the member with that value, or ValueError.
TokenAud(value) == IF value \in TokenAudMembers THEN value ELSE ValueError

\* f"{TokenAud.NONE}:" -- format() of a str-mixin Enum member gives the
\* member's name since Python 3.11 ("TokenAud.NONE"), which is no value of
\* the enum.
FormatNONE == <<"T", "o", "k", "e", "n", "A", "u", "d", ".", "N", "O", "N", "E">>

----------------------------------------------------------------------------
(* config.py *)

TOKEN_MAX_DURATION_SHORT == 900
TOKEN_MAX_DURATION_LONG == 31622400

CANONICAL_HOST_BASE == <<"h", "/">>


\* The secret of this deployment, and a key that is not the secret.
SECRET == "sekret"
OTHERKEY == "otherkey"

----------------------------------------------------------------------------
(* Optional values: None is the empty tuple, a present value v is <<v>>. *)

None == <<>>
Some(v) == <<v>>

----------------------------------------------------------------------------
(* The host's time zone.  datetime.fromtimestamp(ts) with no tz argument   *)
(* returns the naive LOCAL wall-clock time of ts.  Zone "UTC" has a fixed  *)
(* offset; zone "DST" is on summer time until the instant DstEndsAt and    *)
(* on standard time from then on (clocks are set back by DstShift).        *)

DstEndsAt == 600
DstShift == 3600

Zones == {"UTC", "DST"}

utcoffset(z, ts) == IF z = "DST" /\ ts < DstEndsAt THEN DstShift ELSE 0

\* datetime.fromtimestamp(ts): the naive local time, as wall-clock seconds.
fromtimestamp(z, ts) == ts + utcoffset(z, ts)

----------------------------------------------------------------------------
(* Tokens.  A JWT is its header's alg, its payload (a dict of claims) and  *)
(* its signature.  HMAC is modelled as ideal: a signature is the pair of   *)
(* the key and the payload it was computed over.                           *)

Sign(key, payload) == [key |-> key, over |-> payload]

JWT(alg, payload, sig) == [alg |-> alg, payload |-> payload, sig |-> sig]

\* jwt.encode(payload, key, algorithm="HS256")
encode(payload, key) == JWT("HS256", payload, Sign(key, payload))

\* The payload with the given optional claims (None: the claim is absent).
Claims(sub, aud, iat, exp) ==
    LET opt == [k \in {"sub", "aud", "iat", "exp"} |->
                   CASE k = "sub" -> sub [] k = "aud" -> aud
                     [] k = "iat" -> iat [] k = "exp" -> exp]
    IN [k \in {k \in DOMAIN opt : opt[k] # None} |-> opt[k][1]]

\* tokencontents(sub=, aud=, dur=): _iat = now() and _exp = now() + dur are
\* two readings t1 <= t2 of the clock; jwt.encode writes both as whole
\* seconds.
tokencontents(sub, aud, dur, key, t1, t2) ==
    encode(Claims(Some(sub), Some(aud), Some(t1), Some(t2 + dur)), key)

LEEWAY == 30

\* A plausible slip: no leeway is given to jwt.decode.
jwt_decode_noleeway(token, key, t) ==
    IF token.alg # "HS256" THEN "PyJWTError"
    ELSE IF token.sig # Sign(key, token.payload) THEN "PyJWTError"
    ELSE IF "iat" \in DOMAIN token.payload /\ token.payload["iat"] > t
         THEN "PyJWTError"
    ELSE IF "exp" \in DOMAIN token.payload /\ token.payload["exp"] <= t
         THEN "PyJWTError"
    ELSE IF "aud" \in DOMAIN token.payload /\ token.payload["aud"] # <<>>
         THEN "PyJWTError"
    ELSE "ok"

\* PyJWT's jwt.decode(token, key, algorithms=["HS256"], leeway=30): the
\* payload, or "PyJWTError".  It rejects an alg outside `algorithms`, a
\* signature that is not the key's over this payload, exp <= now - leeway,
\* iat > now + leeway and, as no `audience` argument is passed, every
\* token that carries a non-empty aud claim (InvalidAudienceError).
jwt_decode(token, key, t) ==
    IF token.alg # "HS256" THEN "PyJWTError"
    ELSE IF token.sig # Sign(key, token.payload) THEN "PyJWTError"
    ELSE IF "iat" \in DOMAIN token.payload /\ token.payload["iat"] > t + LEEWAY
         THEN "PyJWTError"
    ELSE IF "exp" \in DOMAIN token.payload /\ token.payload["exp"] <= t - LEEWAY
         THEN "PyJWTError"
    ELSE IF "aud" \in DOMAIN token.payload /\ token.payload["aud"] # <<>>
         THEN "PyJWTError"
    ELSE "ok"

EmptyDict == [k \in {} |-> None]

\* A plausible slip: the payload is returned without verifying anything.
decode_unverified(token, key, t) == token.payload

\* decode(token): the payload, or dict() on any jwt.PyJWTError.
decode(token, key, t) ==
    IF jwt_decode(token, key, t) = "ok" THEN token.payload ELSE EmptyDict

Forbidden == [status |-> 403]

\* sub_aud_dur_claims(token): (sub, aud, exp - iat), or HTTP 403 on any
\* exception.
sub_aud_dur_claims(token, key, t, z) ==
    LET claims == decode(token, key, t)
        legacy == contains(get(claims, "sub", <<":">>), ":")
                      /\ "aud" \notin DOMAIN claims   \* .get("aud") is None
        parts  == split1(get(claims, "sub", FormatNONE \o <<":">>), ":")
        sub    == IF legacy THEN parts[2] ELSE get(claims, "sub", <<>>)
        aud    == IF legacy THEN TokenAud(parts[1])
                            ELSE TokenAud(get(claims, "aud", NONE))
    IN IF aud = ValueError THEN Forbidden
       ELSE IF "iat" \notin DOMAIN claims THEN Forbidden   \* KeyError
       ELSE IF "exp" \notin DOMAIN claims THEN Forbidden   \* KeyError
       ELSE [status |-> 200, sub |-> sub, aud |-> aud,
             dur |-> fromtimestamp(z, claims["exp"]) - fromtimestamp(z, claims["iat"])]


----------------------------------------------------------------------------
(* resource_identifier.py *)

Unauthorized == [status |-> 401]

\* getidentifier(fromresource=...): the identifier, or HTTP 401.
getidentifier(fromresource) ==
    IF ~startswith(fromresource, CANONICAL_HOST_BASE) THEN Unauthorized
    ELSE [status |-> 200, identifier |-> removeprefix(fromresource, CANONICAL_HOST_BASE)]

\* getresourceurl(fromidentifier=...)
getresourceurl(fromidentifier) == CANONICAL_HOST_BASE \o fromidentifier

----------------------------------------------------------------------------
(* class QueryHeaderAuth *)

\* QueryHeaderAuth(required=..., aud=..., maxdur=...)
QueryHeaderAuth(required, aud, maxdur) ==
    [auth_is_required |-> required, aud |-> aud, maxdur |-> maxdur]

\* A request: the credentials HTTPBearer(auto_error=False) extracted from
\* the Authorization header (None when there is no bearer header) and the
\* query parameters, a dict that may hold "token" and "resource".
Request(httpcreds, query_params) ==
    [httpcreds |-> httpcreds, query_params |-> query_params]

\* A plausible slip: the query parameter is looked at first.
supplied_query_first(req) ==
    IF "token" \in DOMAIN req.query_params THEN Some(req.query_params["token"])
    ELSE req.httpcreds

\* tokencontents = httpcreds.credentials if httpcreds else token.  httpcreds
\* is what HTTPBearer(auto_error=False) made of the Authorization header:
\* None unless the header has the bearer scheme and credentials.
supplied(req) ==
    IF req.httpcreds # None THEN req.httpcreds
    ELSE IF "token" \in DOMAIN req.query_params
         THEN Some(req.query_params["token"]) ELSE None

NotCalled == [status |-> 0]

\* What sub_aud_dur_claims gives __call__ (NotCalled: it is not reached).
claims_of(req, key, t, z) ==
    IF supplied(req) = None THEN NotCalled
    ELSE sub_aud_dur_claims(supplied(req)[1], key, t, z)

\* A plausible slip: the resource is examined before the token is decoded.
call_try_resource_first(self, req, key, t, z) ==
    LET r   == claims_of(req, key, t, z)
        res == get(req.query_params, "resource", <<>>)
        id  == getidentifier(res)
    IN IF supplied(req) = None THEN "HTTP401"
       ELSE IF id.status # 200 THEN "HTTP401"
       ELSE IF r.status # 200 THEN "HTTP403"
       ELSE IF ~(id.identifier = r.sub /\ self.aud = r.aud /\ self.maxdur >= r.dur)
            THEN "HTTP403"
       ELSE "True"

\* A plausible slip: without a resource parameter the identifier is taken
\* to be the token's own subject.
call_try_sub_fallback(self, req, key, t, z) ==
    LET r   == claims_of(req, key, t, z)
        res == get(req.query_params, "resource", <<>>)
        id  == IF "resource" \in DOMAIN req.query_params \/ r.status # 200
               THEN getidentifier(res)
               ELSE [status |-> 200, identifier |-> r.sub]
    IN IF supplied(req) = None THEN "HTTP401"
       ELSE IF r.status # 200 THEN "HTTP403"
       ELSE IF id.status # 200 THEN "HTTP401"
       ELSE IF ~(id.identifier = r.sub /\ self.aud = r.aud /\ self.maxdur >= r.dur)
            THEN "HTTP403"
       ELSE "True"

\* What the `try` block of __call__ does: "True", or the HTTPException
\* raised in it.
call_try(self, req, key, t, z) ==
    LET r   == claims_of(req, key, t, z)
        res == get(req.query_params, "resource", <<>>)
        id  == getidentifier(res)
    IN IF supplied(req) = None THEN "HTTP401"
       ELSE IF r.status # 200 THEN "HTTP403"
       ELSE IF id.status # 200 THEN "HTTP401"
       ELSE IF ~(id.identifier = r.sub /\ self.aud = r.aud /\ self.maxdur >= r.dur)
            THEN "HTTP403"
       ELSE "True"

\* A plausible slip: the error is swallowed whatever `required` says.
call_swallow(self, req, key, t, z) ==
    IF call_try(self, req, key, t, z) = "True" THEN "True" ELSE "False"

\* QueryHeaderAuth.__call__: "True", "False", or the raised HTTPException.
call(self, req, key, t, z) ==
    LET r == call_try(self, req, key, t, z)
    IN IF r = "True" THEN "True"
       ELSE IF self.auth_is_required THEN r ELSE "False"


----------------------------------------------------------------------------
(* The inputs of the model *)

\* Identifiers of assets; the second one contains a colon.
IdA == <<"a">>
IdAB == <<"a", ":", "b">>

\* sub claims: absent, the modern encoding (the identifier) and the legacy
\* encoding "{aud}:{sub}", with a known and an unknown audience.
Subs ==
    {None, Some(IdA), Some(IdAB),
     Some(RenderAsset \o <<":">> \o IdA), Some(RenderAsset \o <<":">> \o IdAB),
     Some(PreviewAsset \o <<":">> \o IdA), Some(<<"x", "x", ":">> \o IdA)}

\* aud claims: absent, empty, a member's value, an unknown value.
Auds == {None, Some(<<>>), Some(RenderAsset), Some(<<"x", "x">>)}

\* iat and exp claims: absent, or instants around the short ceiling and
\* around the end of summer time.
T0 == 0
Iats == {None, Some(T0)}
Exps == {None, Some(T0 + TOKEN_MAX_DURATION_SHORT),
         Some(T0 + TOKEN_MAX_DURATION_SHORT + 1),
         Some(T0 + TOKEN_MAX_DURATION_SHORT + DstShift)}

Payloads ==
    {Claims(sub, aud, iat, exp) : sub \in Subs, aud \in Auds, iat \in Iats, exp \in Exps}

\* A token is signed by the secret, signed by another key, carries the
\* secret's signature over another payload (tampered with after signing),
\* or is unsigned (alg "none").
Tokens ==
    {encode(p, SECRET) : p \in Payloads}
    \cup {encode(p, OTHERKEY) : p \in Payloads}
    \cup {JWT("HS256", p, Sign(SECRET, EmptyDict)) : p \in Payloads}
    \cup {JWT("none", p, None) : p \in Payloads}

\* resource parameters: canonical for either identifier, and not canonical.
Resources == {getresourceurl(IdA), getresourceurl(IdAB), <<"x", "/", "a">>}

QueryParams(token, resource) ==
    LET opt == [k \in {"token", "resource"} |->
                   CASE k = "token" -> token [] k = "resource" -> resource]
    IN [k \in {k \in DOMAIN opt : opt[k] # None} |-> opt[k][1]]

OptResources == {None} \cup {Some(r) : r \in Resources}

\* The tokens a request carries in its query next to one in its header: a
\* legacy token for the rendition of asset a, signed by the secret and by
\* another key.
QueryTokens ==
    {encode(Claims(Some(RenderAsset \o <<":">> \o IdA), None, Some(T0),
                   Some(T0 + TOKEN_MAX_DURATION_SHORT)), key) : key \in {SECRET, OTHERKEY}}

Requests ==
    {Request(None, QueryParams(None, r)) : r \in OptResources}
    \cup {Request(Some(tok), QueryParams(None, r)) : tok \in Tokens, r \in OptResources}
    \cup {Request(None, QueryParams(Some(tok), r)) : tok \in Tokens, r \in OptResources}
    \cup {Request(Some(tok), QueryParams(Some(q), r)) :
              tok \in Tokens, q \in QueryTokens, r \in OptResources}

Gates ==
    {QueryHeaderAuth(required, aud, TOKEN_MAX_DURATION_SHORT) :
         required \in BOOLEAN, aud \in {RenderAsset, PreviewAsset}}

\* Instants at which a request arrives: the last second at which a token
\* that expires at T0 + TOKEN_MAX_DURATION_SHORT is alive, and the next.
Instants ==
    {T0 + TOKEN_MAX_DURATION_SHORT + LEEWAY - 1, T0 + TOKEN_MAX_DURATION_SHORT + LEEWAY}

----------------------------------------------------------------------------
(* Spec: one request to one gate.  The request, the gate, the instant and  *)
(* the host's zone are drawn in Init; the gate then handles the request.   *)

NoArgs == [fn |-> "none"]

NotWrapped == [pc |-> "none"]

Idle == [how |-> "none"]
NoResponse == [status |-> 0]

\* The framework's answer when a dependency raised: the endpoint's body
\* does not run.  Otherwise the body runs with authed = the gate's result.
Raised(o) == o \in {"HTTP401", "HTTP403"}
StatusOf(o) == IF o = "HTTP401" THEN 401 ELSE 403

Init ==
    /\ secret = SECRET
    /\ zone \in Zones
    /\ now \in Instants
    /\ request \in Requests
    /\ gate \in Gates
    /\ at = now
    /\ decoded = NotCalled
    /\ outcome = "pending"
    /\ issued = Idle
    /\ resp = NoResponse
    /\ archive = {}
    /\ cache = {}
    /\ background = <<>>
    /\ frames = <<>>
    /\ upstream = <<>>
    /\ cacheops = <<>>
    /\ wrapper = NotWrapped
    /\ args = NoArgs
    /\ ret = <<>>

\* The framework resolves the dependency: QueryHeaderAuth.__call__ runs.
Call ==
    /\ outcome = "pending"
    /\ at' = now
    /\ decoded' = claims_of(request, secret, now, zone)
    /\ outcome' = call(gate, request, secret, now, zone)
    /\ resp' = IF Raised(outcome') THEN [status |-> StatusOf(outcome'), body |-> FALSE]
                                  ELSE [status |-> 200, body |-> TRUE]
    /\ UNCHANGED <<cacheops, frames, upstream, wrapper, args, ret, archive, cache, background, secret, zone, now, request, gate, issued>>

Next == Call

Spec == Init /\ [][Next]_vars


----------------------------------------------------------------------------
(* SpecLife: the life of one token.  A client asks for an asset; it gets   *)
(* a token, from tokencontents or from another holder of the secret that   *)
(* still writes the legacy encoding; it presents the token to a gate, any  *)
(* number of times, while the clock advances.                              *)

MaxLate == 2

\* The instants the clock is sampled at: the start, the seconds around the
\* expiry of a token issued at the start, and the seconds around the end
\* of the leeway.
LifeInstants ==
    {T0, T0 + TOKEN_MAX_DURATION_SHORT - 1, T0 + TOKEN_MAX_DURATION_SHORT}
    \cup {T0 + TOKEN_MAX_DURATION_SHORT + LEEWAY + d : d \in (0 - 1)..MaxLate}

\* The durations a token is asked with: at, and just over, the short
\* ceiling, and over it by the zone's shift.
Durations ==
    {TOKEN_MAX_DURATION_SHORT, TOKEN_MAX_DURATION_SHORT + 1,
     TOKEN_MAX_DURATION_SHORT + DstShift}

InitLife ==
    /\ secret = SECRET
    /\ zone \in Zones
    /\ now = T0
    /\ request \in {Request(None, QueryParams(None, Some(r))) :
                        r \in {getresourceurl(IdA), getresourceurl(IdAB)}}
    /\ gate \in Gates
    /\ at = now
    /\ decoded = NotCalled
    /\ outcome = "pending"
    /\ issued = Idle
    /\ resp = NoResponse
    /\ archive = {}
    /\ cache = {}
    /\ background = <<>>
    /\ frames = <<>>
    /\ upstream = <<>>
    /\ cacheops = <<>>
    /\ wrapper = NotWrapped
    /\ args = NoArgs
    /\ ret = <<>>

\* Time passes.
Tick ==
    /\ \E t \in LifeInstants : t > now /\ now' = t
    /\ UNCHANGED <<cacheops, frames, upstream, wrapper, args, ret, archive, cache, background, secret, zone, request, gate, at, decoded, outcome, issued, resp>>

\* new_token: tokencontents makes the token the client will present.  The
\* clock may pass a whole second between the two readings of now().
Issue ==
    /\ issued = Idle
    /\ \E sub \in {IdA}, aud \in {RenderAsset, PreviewAsset}, dur \in Durations,
          t2 \in {now, now + 1} :
          LET tok == tokencontents(sub, aud, dur, secret, now, t2)
          IN /\ issued' = [how |-> "tokencontents", sub |-> sub, aud |-> aud,
                           dur |-> dur, token |-> tok]
             /\ request' = [request EXCEPT !.httpcreds = Some(tok)]
    /\ decoded' = NotCalled
    /\ outcome' = "pending"
    /\ UNCHANGED <<cacheops, frames, upstream, wrapper, args, ret, archive, cache, background, secret, zone, now, gate, at, resp>>

\* Another holder of the secret makes a token in the legacy encoding.
Receive ==
    /\ issued = Idle
    /\ \E sub \in {IdA}, aud \in {RenderAsset, PreviewAsset}, dur \in Durations :
          LET tok == encode(Claims(Some(aud \o <<":">> \o sub), None,
                                   Some(now), Some(now + dur)), secret)
          IN /\ issued' = [how |-> "legacy", sub |-> sub, aud |-> aud,
                           dur |-> dur, token |-> tok]
             /\ request' = [request EXCEPT !.httpcreds = Some(tok)]
    /\ decoded' = NotCalled
    /\ outcome' = "pending"
    /\ UNCHANGED <<cacheops, frames, upstream, wrapper, args, ret, archive, cache, background, secret, zone, now, gate, at, resp>>

\* The client sends the request: QueryHeaderAuth.__call__ runs now.
Present ==
    /\ at' = now
    /\ decoded' = claims_of(request, secret, now, zone)
    /\ outcome' = call(gate, request, secret, now, zone)
    /\ resp' = IF Raised(outcome') THEN [status |-> StatusOf(outcome'), body |-> FALSE]
                                  ELSE [status |-> 200, body |-> TRUE]
    /\ UNCHANGED <<cacheops, frames, upstream, wrapper, args, ret, archive, cache, background, secret, zone, now, request, gate, issued>>

NextLife == Tick \/ Issue \/ Receive \/ Present

SpecLife == InitLife /\ [][NextLife]_vars

----------------------------------------------------------------------------
(* Assets, renditions and previews (fotoware/renditions.py, reprs.py) *)

\* An AssetRendition of the Fotoware API.
AssetRendition(profile, original, width, height, href) ==
    [profile |-> profile, original |-> original, width |-> width,
     height |-> height, href |-> href]

\* A preview of the Fotoware API.
AssetPreview(size, width, height, square, href) ==
    [size |-> size, width |-> width, height |-> height, square |-> square,
     href |-> href]

BigSide == 4
SmallSide == 2

Renditions ==
    <<AssetRendition("orig", TRUE, BigSide, BigSide - 1, "r-orig"),
      AssetRendition("small", FALSE, SmallSide, SmallSide - 1, "r-small")>>

Previews ==
    <<AssetPreview(SmallSide, SmallSide, SmallSide - 1, FALSE, "p-small")>>

\* An asset as the Fotoware API describes it.  public is what
\* fotoware.assets.is_public reads off the asset; modified is the stamp of
\* its last upload, physicalFileId and href are what the archive knows it
\* by.
AssetAt(id, public, modified) ==
    [id |-> id, public |-> public, renditions |-> Renditions, previews |-> Previews,
     modified |-> modified, physicalFileId |-> <<"f">> \o id, href |-> <<"/">> \o id,
     metadata |-> [f \in {"fn"} |-> id]]

FirstUpload == <<"1">>

Asset(id, public) == AssetAt(id, public, FirstUpload)

is_public(asset) == asset.public

min(a, b) == IF a <= b THEN a ELSE b

\* A plausible slip: the last qualifying rendition is taken.
find_rendition_last(data, profile, size, width, height, original) ==
    LET q1 == IF profile # None
              THEN SelectSeq(data, LAMBDA i : profile[1] = i.profile) ELSE data
        q2 == IF original # None
              THEN SelectSeq(q1, LAMBDA i : original[1] = i.original) ELSE q1
        q3 == SelectSeq(q2, LAMBDA i : size <= min(i.height, i.width))
        q4 == SelectSeq(q3, LAMBDA i : width <= i.width)
        q5 == SelectSeq(q4, LAMBDA i : height <= i.height)
    IN IF q5 = <<>> THEN None ELSE Some(q5[Len(q5)])

\* find_rendition(data, profile=, size=, width=, height=, original=): the
\* first rendition that passes every filter, or None.
find_rendition(data, profile, size, width, height, original) ==
    LET q1 == IF profile # None
              THEN SelectSeq(data, LAMBDA i : profile[1] = i.profile) ELSE data
        q2 == IF original # None
              THEN SelectSeq(q1, LAMBDA i : original[1] = i.original) ELSE q1
        q3 == SelectSeq(q2, LAMBDA i : size <= min(i.height, i.width))
        q4 == SelectSeq(q3, LAMBDA i : width <= i.width)
        q5 == SelectSeq(q4, LAMBDA i : height <= i.height)
    IN IF q5 = <<>> THEN None ELSE Some(q5[1])

\* fotoware.previews.find_preview(data, size=, width=, height=, square=):
\* the first preview that is large enough, or None.
find_preview(data, size, width, height, square) ==
    LET q1 == SelectSeq(data, LAMBDA i : size <= i.size)
        q2 == SelectSeq(q1, LAMBDA i : width <= i.width)
        q3 == SelectSeq(q2, LAMBDA i : height <= i.height)
        q4 == IF square THEN SelectSeq(q3, LAMBDA i : i.square) ELSE q3
    IN IF q4 = <<>> THEN None ELSE Some(q4[1])

\* fotoware.search.find(ARCHIVES, SE.eq(UUID_FIELD, identifier)): the one
\* asset with that identifier; HTTP 404 unless there is exactly one.
find(assets, identifier) ==
    LET found == {a \in assets : a.id = identifier}
    IN IF Cardinality(found) = 1
       THEN [status |-> 200, asset |-> CHOOSE a \in found : TRUE]
       ELSE [status |-> 404]

RenditionTrait(profile, original, size, width, height) ==
    [profile |-> profile, original |-> original, size |-> size,
     width |-> width, height |-> height]

PreviewTrait(height, size, width, square) ==
    [height |-> height, size |-> size, width |-> width, square |-> square]

\* fotoware.apitypes.traitkey(traits): one key per combination of traits.
traitkey(traits) == traits

\* The bytes Fotoware sends for a rendition or a preview of an asset.
Bytes(asset, href) == [of |-> asset.id, href |-> href, modified |-> asset.modified]

\* persistence.get(key): the cached value, or None.
persistence_get(store, key) ==
    IF \E e \in store : e.key = key
    THEN Some((CHOOSE e \in store : e.key = key).value)
    ELSE None

\* persistence.set(key, value): the store with key bound to value.
persistence_set(store, key, value) ==
    {e \in store : e.key # key} \cup {[key |-> key, value |-> value]}

\* What a handler hands back: the response, the cache and the background
\* tasks as it leaves them.
Result(status, content, store, tasks) ==
    [status |-> status, content |-> content, cache |-> store, tasks |-> tasks,
     calls |-> <<>>, ops |-> <<>>]

\* The requests a handler makes of Fotoware: the POST that starts a
\* rendition (renditions.rendition_location) and the GET of the binary
\* (assets.retrying_response, previews.preview_response).
RenderRequest(href) == [op |-> "rendition_location", href |-> href]
BinaryRequest(href) == [op |-> "fetch", href |-> href]

\* r, reached after the handler made these requests of Fotoware.
After(calls, r) == [r EXCEPT !.calls = calls]

\* The reads and writes of the cache: persistence.get and persistence.set.
CacheGet(key) == [op |-> "get", key |-> key]
CacheSet(key) == [op |-> "set", key |-> key]

\* r, reached after the handler read (and wrote) the cache.
Cached(ops, r) == [r EXCEPT !.ops = ops]

\* raise HTTPException(status): no content, and nothing the handler had
\* changed in the cache is undone.
HTTPException(status, store) == Result(status, None, store, <<>>)

\* cachekey = identifier + ":" + fotoware.apitypes.traitkey(traits), in
\* filerendition and in filepreview.
reprs_cachekey(asset, traits) == <<asset.id, traitkey(traits)>>

\* filerendition without the cache read: every request is fetched.
filerendition_nocache(asset, traits, store, fetched) ==
    LET rendition == find_rendition(asset.renditions, traits.profile, traits.size,
                                    traits.width, traits.height, traits.original)
        cachekey  == reprs_cachekey(asset, traits)
        fresh     == Bytes(asset, rendition[1].href)
    IN IF rendition = None THEN HTTPException(400, store)
       ELSE IF ~fetched
            THEN After(<<RenderRequest(rendition[1].href)>>, HTTPException(500, store))
       ELSE Cached(<<CacheSet(cachekey)>>,
              After(<<RenderRequest(rendition[1].href), BinaryRequest(rendition[1].href)>>,
                  Result(200, Some(fresh), persistence_set(store, cachekey, fresh), <<>>)))

\* reprs.filerendition(asset, traits).  fetched tells whether Fotoware
\* answers the rendition request.
filerendition(asset, traits, store, fetched) ==
    LET rendition == find_rendition(asset.renditions, traits.profile, traits.size,
                                    traits.width, traits.height, traits.original)
        cachekey  == reprs_cachekey(asset, traits)
        content   == persistence_get(store, cachekey)
        fresh     == Bytes(asset, rendition[1].href)
    IN IF rendition = None THEN HTTPException(400, store)
       ELSE IF content # None
            THEN Cached(<<CacheGet(cachekey)>>, Result(200, content, store, <<>>))
       ELSE IF ~fetched
            THEN Cached(<<CacheGet(cachekey)>>,
                   After(<<RenderRequest(rendition[1].href)>>, HTTPException(500, store)))
       ELSE Cached(<<CacheGet(cachekey), CacheSet(cachekey)>>,
              After(<<RenderRequest(rendition[1].href), BinaryRequest(rendition[1].href)>>,
                  Result(200, Some(fresh), persistence_set(store, cachekey, fresh), <<>>)))

\* reprs.filepreview(asset, traits).
filepreview(asset, traits, store, fetched) ==
    LET cachekey    == reprs_cachekey(asset, traits)
        content     == persistence_get(store, cachekey)
        preview_url == find_preview(asset.previews, traits.size, traits.width,
                                    traits.height, traits.square)
        fresh       == Bytes(asset, preview_url[1].href)
    IN IF content # None
       THEN Cached(<<CacheGet(cachekey)>>, Result(200, content, store, <<>>))
       ELSE IF preview_url = None
            THEN Cached(<<CacheGet(cachekey)>>, HTTPException(400, store))
       ELSE IF ~fetched
            THEN Cached(<<CacheGet(cachekey)>>,
                   After(<<BinaryRequest(preview_url[1].href)>>, HTTPException(500, store)))
       ELSE Cached(<<CacheGet(cachekey), CacheSet(cachekey)>>,
              After(<<BinaryRequest(preview_url[1].href)>>,
                  Result(200, Some(fresh), persistence_set(store, cachekey, fresh), <<>>)))

----------------------------------------------------------------------------
(* The endpoints that serve binary content (routers/doc_img.py, main.py) *)

\* A dict from optional entries: a key whose entry is None is absent.
Dict(opt) == [k \in {k \in DOMAIN opt : opt[k] # None} |-> opt[k][1]]

\* A query parameter with default None.
param(req, k) ==
    IF k \in DOMAIN req.query_params THEN Some(req.query_params[k]) ELSE None

PathRenderAsset == "/-/asset/render"
PathResourcePreview == "/-/asset/preview"
PathRenderRendition == "/doc/{identifier}/rendition/{filename}"
PathJsonldManifest == "/-/data/jsonld-manifest"
PathWorkerAssignMetadata == "/-/background-worker/assign-metadata"
PathWebhookAssignMetadata == "/-/webhooks/assign-metadata"

\* The Depends(QueryHeaderAuth(...)) of each route.  main.py passes the
\* first argument under its older name raise_.
GateOf(path) ==
    CASE path = PathRenderAsset -> QueryHeaderAuth(FALSE, RenderAsset, TOKEN_MAX_DURATION_SHORT)
      [] path = PathResourcePreview -> QueryHeaderAuth(FALSE, PreviewAsset, TOKEN_MAX_DURATION_SHORT)
      [] path = PathRenderRendition -> QueryHeaderAuth(FALSE, RenderAsset, TOKEN_MAX_DURATION_SHORT)
      [] path = PathJsonldManifest ->
            QueryHeaderAuth(TRUE, RenderFullManifest, TOKEN_MAX_DURATION_LONG)
      [] path = PathWorkerAssignMetadata ->
            QueryHeaderAuth(TRUE, UpdateAssetMetadata, TOKEN_MAX_DURATION_LONG)
      [] path = PathWebhookAssignMetadata ->
            QueryHeaderAuth(TRUE, UpdateAssetMetadata, TOKEN_MAX_DURATION_LONG)

\* background_tasks.add_task(exec_update_tasks, assets=[asset], tasks=[Task.sha256])
Sha256Task(asset) ==
    [fn |-> "exec_update_tasks", assets |-> <<asset>>, tasks |-> <<"sha256">>]

\* render_asset with the rendition fetched before the authorization is
\* decided: the 401 comes after the cache and Fotoware were used.
render_asset_fetch_first(req, authed, assets, store, fetched) ==
    LET profile    == param(req, "profile")
        original   == param(req, "original")
        size       == get(req.query_params, "size", 0)
        identifier == getidentifier(req.query_params["resource"])
        found      == find(assets, identifier.identifier)
        served     == filerendition(found.asset,
                          RenditionTrait(profile, original, size, 0, 0), store, fetched)
    IN IF "resource" \notin DOMAIN req.query_params THEN HTTPException(422, store)
       ELSE IF profile = None /\ original = None /\ size = 0
            THEN HTTPException(400, store)
       ELSE IF identifier.status # 200 THEN HTTPException(401, store)
       ELSE IF found.status # 200 THEN HTTPException(404, store)
       ELSE IF ~(~is_public(found.asset) /\ ~authed)   \* NAND
            THEN [served EXCEPT !.status = 401, !.content = None]
       ELSE IF served.status = 200 /\ original = Some(TRUE)
            THEN [served EXCEPT !.tasks = <<Sha256Task(found.asset)>>]
       ELSE served

\* doc_img.render_asset.  A request without the resource parameter does
\* not reach the handler (422).  The queued background task runs only if
\* the handler returns a response.
render_asset(req, authed, assets, store, fetched) ==
    LET profile    == param(req, "profile")
        original   == param(req, "original")
        size       == get(req.query_params, "size", 0)
        identifier == getidentifier(req.query_params["resource"])
        found      == find(assets, identifier.identifier)
        served     == filerendition(found.asset,
                          RenditionTrait(profile, original, size, 0, 0), store, fetched)
    IN IF "resource" \notin DOMAIN req.query_params THEN HTTPException(422, store)
       ELSE IF profile = None /\ original = None /\ size = 0
            THEN HTTPException(400, store)
       ELSE IF identifier.status # 200 THEN HTTPException(401, store)
       ELSE IF found.status # 200 THEN HTTPException(404, store)
       ELSE IF ~(~is_public(found.asset) /\ ~authed)   \* NAND
            THEN HTTPException(401, store)
       ELSE IF served.status = 200 /\ original = Some(TRUE)
            THEN [served EXCEPT !.tasks = <<Sha256Task(found.asset)>>]
       ELSE served

\* doc_img.resource_preview
resource_preview(req, authed, assets, store, fetched) ==
    LET size       == get(req.query_params, "size", 0)
        identifier == getidentifier(req.query_params["resource"])
        found      == find(assets, identifier.identifier)
    IN IF "resource" \notin DOMAIN req.query_params THEN HTTPException(422, store)
       ELSE IF identifier.status # 200 THEN HTTPException(401, store)
       ELSE IF found.status # 200 THEN HTTPException(404, store)
       ELSE IF ~(~is_public(found.asset) /\ ~authed)   \* NAND
            THEN HTTPException(401, store)
       ELSE filepreview(found.asset, PreviewTrait(0, size, 0, FALSE), store, fetched)

\* main.render_rendition: the identifier is the one of the path.
render_rendition(req, authed, assets, store, fetched) ==
    LET profile   == param(req, "profile")
        size      == get(req.query_params, "size", 0)
        found     == find(assets, req.path_params["identifier"])
        public    == is_public(found.asset)
        rendition == find_rendition(found.asset.renditions, profile, size, 0, 0, None)
        cachekey  == <<found.asset.id, "rendition", rendition[1].profile>>
        contents  == persistence_get(store, cachekey)
        fresh     == Bytes(found.asset, rendition[1].href)
    IN IF found.status # 200 THEN HTTPException(404, store)
       ELSE IF ~public \/ (~authed /\ ~public) THEN HTTPException(401, store)
       ELSE IF rendition = None THEN HTTPException(400, store)
       ELSE IF contents # None
            THEN Cached(<<CacheGet(cachekey)>>, Result(200, contents, store, <<>>))
       ELSE IF ~fetched
            THEN Cached(<<CacheGet(cachekey)>>,
                   After(<<RenderRequest(rendition[1].href)>>, HTTPException(500, store)))
       ELSE Cached(<<CacheGet(cachekey), CacheSet(cachekey)>>,
              After(<<RenderRequest(rendition[1].href), BinaryRequest(rendition[1].href)>>,
                  Result(200, Some(fresh), persistence_set(store, cachekey, fresh), <<>>)))

----------------------------------------------------------------------------
(* SpecServe: one request to one of the endpoints that serve binary        *)
(* content.  The request, the archive, the cache, the instant and the      *)
(* zone are drawn in Init; the endpoint of the request's path handles it.  *)

\* The tokens a client presents: legacy tokens for the rendition and the
\* preview of asset a, for another asset, with an over-long life, with a
\* foreign signature, and the token tokencontents makes.
ServeTokens ==
    {encode(Claims(Some(aud \o <<":">> \o sub), None, Some(T0), Some(T0 + dur)), key) :
        aud \in {RenderAsset, PreviewAsset}, sub \in {IdA, IdAB},
        dur \in {TOKEN_MAX_DURATION_SHORT, TOKEN_MAX_DURATION_SHORT + 1},
        key \in {SECRET, OTHERKEY}}
    \cup {tokencontents(IdA, aud, TOKEN_MAX_DURATION_SHORT, SECRET, T0, T0) :
        aud \in {RenderAsset, PreviewAsset}}

ServeParams ==
    {Dict([k \in {"resource", "profile", "original", "size"} |->
              CASE k = "resource" -> resource
                [] k = "profile" -> profile
                [] k = "original" -> original
                [] k = "size" -> size]) :
        resource \in OptResources,
        profile \in {None, Some("small")},
        original \in {None, Some(TRUE)},
        size \in {None, Some(BigSide + 1)}}

ServeRequests ==
    {[httpcreds |-> httpcreds, query_params |-> query_params, path |-> path,
      path_params |-> path_params] :
        httpcreds \in {None} \cup {Some(t) : t \in ServeTokens},
        query_params \in ServeParams,
        path \in {PathRenderAsset, PathResourcePreview},
        path_params \in {EmptyDict}}
    \cup
    {[httpcreds |-> httpcreds, query_params |-> query_params, path |-> path,
      path_params |-> path_params] :
        httpcreds \in {None} \cup {Some(t) : t \in ServeTokens},
        query_params \in ServeParams,
        path \in {PathRenderRendition},
        path_params \in {[k \in {"identifier"} |-> id] : id \in {IdA, IdAB}}}

Archives ==
    {{}, {Asset(IdA, TRUE)}, {Asset(IdA, FALSE)}, {Asset(IdA, FALSE), Asset(IdAB, TRUE)}}

\* The cache, empty or holding a rendition fetched earlier.
Caches ==
    {{},
     persistence_set({}, <<IdA, traitkey(RenditionTrait(None, Some(TRUE), 0, 0, 0))>>,
                     Bytes(Asset(IdA, FALSE), "r-orig"))}

InitServe ==
    /\ secret = SECRET
    /\ zone = "UTC"
    /\ now \in {T0, T0 + TOKEN_MAX_DURATION_SHORT + LEEWAY}
    /\ request \in ServeRequests
    /\ gate = GateOf(request.path)
    /\ at = now
    /\ decoded = NotCalled
    /\ outcome = "pending"
    /\ issued = Idle
    /\ resp = NoResponse
    /\ archive \in Archives
    /\ cache \in Caches
    /\ background = <<>>
    /\ frames = <<>>
    /\ upstream = <<>>
    /\ cacheops = <<>>
    /\ wrapper = NotWrapped
    /\ args = NoArgs
    /\ ret = <<>>

\* The dependency runs, then the handler; r is what the handler hands back
\* when the gate's flag is authed.
Respond(r) ==
    /\ at' = now
    /\ decoded' = claims_of(request, secret, now, zone)
    /\ outcome' = call(gate, request, secret, now, zone)
    /\ resp' = [status |-> r.status, content |-> r.content]
    /\ cache' = r.cache
    /\ background' = background \o r.tasks
    /\ upstream' = upstream \o r.calls
    /\ cacheops' = r.ops
    /\ UNCHANGED <<frames, wrapper, secret, zone, now, request, gate, issued, archive, args, ret>>

Authed == call(gate, request, secret, now, zone) = "True"

RenderAssetEndpoint ==
    /\ outcome = "pending"
    /\ request.path = PathRenderAsset
    /\ \E fetched \in BOOLEAN :
          Respond(render_asset(request, Authed, archive, cache, fetched))

ResourcePreviewEndpoint ==
    /\ outcome = "pending"
    /\ request.path = PathResourcePreview
    /\ \E fetched \in BOOLEAN :
          Respond(resource_preview(request, Authed, archive, cache, fetched))

RenderRenditionEndpoint ==
    /\ outcome = "pending"
    /\ request.path = PathRenderRendition
    /\ \E fetched \in BOOLEAN :
          Respond(render_rendition(request, Authed, archive, cache, fetched))

NextServe == RenderAssetEndpoint \/ ResourcePreviewEndpoint \/ RenderRenditionEndpoint

SpecServe == InitServe /\ [][NextServe]_vars

----------------------------------------------------------------------------
(* SpecFind: find_rendition called, more than once, on one list of         *)
(* renditions with one set of constraints.                                 *)

MaxLen == 2
MaxCalls == 2

\* Sequences over S of length at most n.
SeqUpTo(S, n) == UNION {[1..k -> S] : k \in 0..n}

\* Renditions that differ in each trait find_rendition looks at.
SomeRenditions ==
    {AssetRendition(profile, original, wh[1], wh[2], "r") :
        profile \in {"orig", "small"}, original \in BOOLEAN,
        wh \in {<<SmallSide - 1, SmallSide>>, <<SmallSide, SmallSide - 1>>,
                <<SmallSide, SmallSide>>}}

FindArgs ==
    [fn : {"find_rendition"},
     data : SeqUpTo(SomeRenditions, MaxLen),
     profile : {None, Some("small")},
     original : {None, Some(TRUE), Some(FALSE)},
     size : {0, SmallSide},
     width : {0, SmallSide},
     height : {0, SmallSide}]

\* Everything the function specifications do not use.
Unused ==
    /\ secret = SECRET
    /\ zone = "UTC"
    /\ now = T0
    /\ request = Request(None, EmptyDict)
    /\ gate = QueryHeaderAuth(FALSE, NONE, TOKEN_MAX_DURATION_SHORT)
    /\ at = T0
    /\ decoded = NotCalled
    /\ outcome = "pending"
    /\ issued = Idle
    /\ resp = NoResponse
    /\ archive = {}
    /\ cache = {}
    /\ background = <<>>
    /\ frames = <<>>
    /\ upstream = <<>>
    /\ cacheops = <<>>
    /\ wrapper = NotWrapped

InitFind == Unused /\ args \in FindArgs /\ ret = <<>>

FindRendition ==
    /\ args.fn = "find_rendition"
    /\ Len(ret) < MaxCalls
    /\ ret' = Append(ret, find_rendition(args.data, args.profile, args.size,
                                         args.width, args.height, args.original))
    /\ UNCHANGED <<cacheops, frames, upstream, wrapper, secret, zone, now, request, gate, at, decoded, outcome, issued,
                   resp, archive, cache, background, args>>

NextFind == FindRendition

SpecFind == InitFind /\ [][NextFind]_vars

----------------------------------------------------------------------------
(* previews.py: find_appropriate_preview *)

\* What a call did: it returned a value, or it raised an exception.
Returned(v) == [raised |-> "", value |-> v]
Raise(e) == [raised |-> e, value |-> ""]

\* What the chain of filters makes of one preview i.  The filters are lazy:
\* each is evaluated on i only if the ones before it let i through, and a
\* minimum of None cannot be compared with an int (TypeError).
qualified(i, min_size, min_width, min_height, must_be_square) ==
    IF min_size = None THEN "TypeError"
    ELSE IF ~(min_size[1] < i.size) THEN "skip"
    ELSE IF min_width = None THEN "TypeError"
    ELSE IF ~(min_width[1] < i.width) THEN "skip"
    ELSE IF min_height = None THEN "TypeError"
    ELSE IF ~(min_height[1] < i.height) THEN "skip"
    ELSE IF must_be_square # None /\ i.square # must_be_square[1] THEN "skip"
    ELSE "take"

\* find_appropriate_preview(data, min_size=, min_width=, min_height=,
\* must_be_square=): next(qualified)["href"]; next raises StopIteration
\* when nothing is left.
find_appropriate_preview(data, min_size, min_width, min_height, must_be_square) ==
    LET q(k) == qualified(data[k], min_size, min_width, min_height, must_be_square)
        stops == {k \in 1..Len(data) : q(k) # "skip"}
        first == CHOOSE k \in stops : \A j \in stops : k <= j
    IN IF stops = {} THEN Raise("StopIteration")
       ELSE IF q(first) = "TypeError" THEN Raise("TypeError")
       ELSE Returned(data[first].href)

----------------------------------------------------------------------------
(* SpecPreview: find_appropriate_preview called on one list of previews    *)
(* with one set of constraints.                                            *)

\* The previews of an asset: size is the longest side, and each preview
\* has its own href.
PreviewShapes ==
    {AssetPreview(IF wh[1] >= wh[2] THEN wh[1] ELSE wh[2], wh[1], wh[2], square, "") :
        wh \in {<<SmallSide - 1, SmallSide - 1>>, <<SmallSide, SmallSide - 1>>,
                <<SmallSide - 1, SmallSide>>, <<SmallSide, SmallSide>>},
        square \in BOOLEAN}

Hrefs == <<"p-1", "p-2", "p-3", "p-4", "p-5">>

WithHrefs(data) ==
    [k \in 1..Len(data) |-> [data[k] EXCEPT !.href = Hrefs[k]]]

PreviewArgs ==
    [fn : {"find_appropriate_preview"},
     data : {WithHrefs(d) : d \in SeqUpTo(PreviewShapes, MaxLen)},
     min_size : {None, Some(0), Some(SmallSide - 1)},
     min_width : {Some(0), Some(SmallSide - 1)},
     min_height : {Some(0), Some(SmallSide - 1)},
     must_be_square : {None, Some(TRUE), Some(FALSE)}]

InitPreview == Unused /\ args \in PreviewArgs /\ ret = <<>>

FindAppropriatePreview ==
    /\ args.fn = "find_appropriate_preview"
    /\ Len(ret) < MaxCalls
    /\ ret' = Append(ret, find_appropriate_preview(args.data, args.min_size,
                              args.min_width, args.min_height, args.must_be_square))
    /\ UNCHANGED <<cacheops, frames, upstream, wrapper, secret, zone, now, request, gate, at, decoded, outcome, issued,
                   resp, archive, cache, background, args>>

NextPreview == FindAppropriatePreview

SpecPreview == InitPreview /\ [][NextPreview]_vars

----------------------------------------------------------------------------
(* SpecCache: requests for renditions and previews of one asset, which is  *)
(* uploaded anew under the same identifier in between.                     *)

MaxUploads == 3

CacheTraits ==
    {[fn |-> "filerendition", traits |-> RenditionTrait(None, Some(TRUE), 0, 0, 0)],
     [fn |-> "filerendition", traits |-> RenditionTrait(Some("small"), None, 0, 0, 0)],
     [fn |-> "filerendition", traits |-> RenditionTrait(None, None, BigSide + 1, 0, 0)],
     [fn |-> "filepreview", traits |-> PreviewTrait(0, 0, 0, FALSE)],
     [fn |-> "filepreview", traits |-> PreviewTrait(0, SmallSide + 1, 0, FALSE)]}

InitCache ==
    /\ secret = SECRET
    /\ zone = "UTC"
    /\ now = T0
    /\ request = Request(None, EmptyDict)
    /\ gate = QueryHeaderAuth(FALSE, NONE, TOKEN_MAX_DURATION_SHORT)
    /\ at = T0
    /\ decoded = NotCalled
    /\ outcome = "pending"
    /\ issued = Idle
    /\ resp = NoResponse
    /\ archive \in {{Asset(IdA, public)} : public \in BOOLEAN}
    /\ cache = {}
    /\ background = <<>>
    /\ frames = <<>>
    /\ upstream = <<>>
    /\ cacheops = <<>>
    /\ wrapper = NotWrapped
    /\ args = NoArgs
    /\ ret = <<>>

\* The asset's file is replaced in Fotoware: same identifier, new stamp.
Reupload ==
    /\ \E a \in archive :
          /\ Len(a.modified) < MaxUploads
          /\ archive' = (archive \ {a}) \cup {[a EXCEPT !.modified = Append(@, "1")]}
    /\ UNCHANGED <<cacheops, frames, upstream, wrapper, secret, zone, now, request, gate, at, decoded, outcome, issued,
                   resp, cache, background, args, ret>>

\* A handler calls reprs.filerendition(asset, traits) with the asset as
\* Fotoware describes it now.
FileRendition ==
    \E a \in archive, c \in CacheTraits, fetched \in BOOLEAN :
        /\ c.fn = "filerendition"
        /\ LET r == filerendition(a, c.traits, cache, fetched)
           IN /\ resp' = [status |-> r.status, content |-> r.content]
              /\ cache' = r.cache
              /\ upstream' = r.calls
              /\ cacheops' = r.ops
        /\ args' = [fn |-> c.fn, asset |-> a, traits |-> c.traits]
        /\ UNCHANGED <<frames, wrapper, secret, zone, now, request, gate, at, decoded, outcome,
                       issued, archive, background, ret>>

\* A handler calls reprs.filepreview(asset, traits).
FilePreview ==
    \E a \in archive, c \in CacheTraits, fetched \in BOOLEAN :
        /\ c.fn = "filepreview"
        /\ LET r == filepreview(a, c.traits, cache, fetched)
           IN /\ resp' = [status |-> r.status, content |-> r.content]
              /\ cache' = r.cache
              /\ upstream' = r.calls
              /\ cacheops' = r.ops
        /\ args' = [fn |-> c.fn, asset |-> a, traits |-> c.traits]
        /\ UNCHANGED <<frames, wrapper, secret, zone, now, request, gate, at, decoded, outcome,
                       issued, archive, background, ret>>

NextCache == Reupload \/ FileRendition \/ FilePreview

SpecCache == InitCache /\ [][NextCache]_vars

----------------------------------------------------------------------------
(* persistence.key *)

\* A plausible slip: the stamp is left out of the key.
key_unstamped(asset) ==
    IF asset.physicalFileId # <<>> THEN asset.physicalFileId ELSE asset.href

\* key(asset): (asset["physicalFileId"] or asset["href"]) + asset["modified"].
\* An empty physicalFileId is falsy, the href then takes its place.
key(asset) ==
    (IF asset.physicalFileId # <<>> THEN asset.physicalFileId ELSE asset.href)
        \o asset.modified

----------------------------------------------------------------------------
(* SpecKey: persistence.key called, more than once, on two assets. *)

MaxStr == 2

\* Strings over the alphabet of length lo to hi.
Strings(alphabet, lo, hi) == UNION {[1..k -> alphabet] : k \in lo..hi}

KeyAssets ==
    [physicalFileId : Strings({"a"}, 0, MaxStr),
     href : {<<"/", "a">>, <<"/", "b">>},
     modified : Strings({"1", "2"}, 1, MaxStr)]

KeyArgs == [fn : {"key"}, assets : KeyAssets \X KeyAssets]

InitKey == Unused /\ args \in KeyArgs /\ ret = <<>>

\* key is called on the first asset, on the second, on the first again, ...
Key ==
    /\ args.fn = "key"
    /\ Len(ret) < 2 * MaxCalls
    /\ ret' = Append(ret, key(args.assets[(Len(ret) % 2) + 1]))
    /\ UNCHANGED <<cacheops, frames, upstream, wrapper, secret, zone, now, request, gate, at, decoded, outcome, issued,
                   resp, archive, cache, background, args>>

NextKey == Key

SpecKey == InitKey /\ [][NextKey]_vars

----------------------------------------------------------------------------
(* persistence.try_redis.  SpecRedis: one call of a wrapped cache          *)
(* operation, attempt by attempt.  Each attempt of the wrapped function    *)
(* succeeds, fails with redis.exceptions.ConnectionError, or fails with    *)
(* another redis.exceptions.RedisError.                                    *)

NUM_RETRIES == 5

\* wrapper(*args, **kwargs) is entered: retries = num_retries.
Entered(num_retries) ==
    [pc |-> "try", num_retries |-> num_retries, retries |-> num_retries,
     attempts |-> <<>>, result |-> None, status |-> 0]

RedisArgs ==
    {[fn |-> "set", name |-> name, value |-> value] :
        name \in {"k1", "k2"}, value \in {"v1", "v2"}}
    \cup {[fn |-> "get", name |-> name] : name \in {"k1", "k2"}}

InitRedis ==
    /\ secret = SECRET
    /\ zone = "UTC"
    /\ now = T0
    /\ request = Request(None, EmptyDict)
    /\ gate = QueryHeaderAuth(FALSE, NONE, TOKEN_MAX_DURATION_SHORT)
    /\ at = T0
    /\ decoded = NotCalled
    /\ outcome = "pending"
    /\ issued = Idle
    /\ resp = NoResponse
    /\ archive = {}
    /\ cache \in {{}, persistence_set({}, "k1", "v0")}
    /\ background = <<>>
    /\ frames = <<>>
    /\ upstream = <<>>
    /\ cacheops = <<>>
    /\ args \in RedisArgs
    /\ ret = <<>>
    /\ wrapper \in {Entered(n) : n \in {0, 1, NUM_RETRIES}}

\* return func(*args, **kwargs): the operation reaches the store.
AttemptReturns ==
    /\ wrapper.pc = "try"
    /\ cache' = IF args.fn = "set" THEN persistence_set(cache, args.name, args.value)
                                   ELSE cache
    /\ wrapper' = [wrapper EXCEPT
                      !.pc = "returned",
                      !.attempts = Append(@, "ok"),
                      !.result = IF args.fn = "set" THEN Some("True")
                                 ELSE persistence_get(cache, args.name)]
    /\ ret' = Append(ret, wrapper'.result)
    /\ UNCHANGED <<cacheops, frames, upstream, secret, zone, now, request, gate, at, decoded, outcome, issued,
                   resp, archive, background, args>>

\* A plausible slip: the last retry is not made.
AttemptConnectionError_early ==
    /\ wrapper.pc = "try"
    /\ \E carried_out \in BOOLEAN :
          cache' = IF args.fn = "set" /\ carried_out
                   THEN persistence_set(cache, args.name, args.value) ELSE cache
    /\ wrapper' = IF wrapper.retries <= 1
                  THEN [wrapper EXCEPT !.pc = "raised", !.status = 500,
                                       !.attempts = Append(@, "ConnectionError")]
                  ELSE [wrapper EXCEPT !.retries = @ - 1,
                                       !.attempts = Append(@, "ConnectionError")]
    /\ UNCHANGED <<cacheops, frames, upstream, secret, zone, now, request, gate, at, decoded, outcome, issued,
                   resp, archive, background, args, ret>>

\* except redis.exceptions.ConnectionError: raise HTTP 500 when retries is
\* 0, else count the retry down, sleep and try again.  The connection may
\* have failed before the store saw the command or after it carried it out.
AttemptConnectionError ==
    /\ wrapper.pc = "try"
    /\ \E carried_out \in BOOLEAN :
          cache' = IF args.fn = "set" /\ carried_out
                   THEN persistence_set(cache, args.name, args.value) ELSE cache
    /\ wrapper' = IF wrapper.retries = 0
                  THEN [wrapper EXCEPT !.pc = "raised", !.status = 500,
                                       !.attempts = Append(@, "ConnectionError")]
                  ELSE [wrapper EXCEPT !.retries = @ - 1,
                                       !.attempts = Append(@, "ConnectionError")]
    /\ UNCHANGED <<cacheops, frames, upstream, secret, zone, now, request, gate, at, decoded, outcome, issued,
                   resp, archive, background, args, ret>>

\* A plausible slip: the error is logged and the wrapper returns None.
AttemptRedisError_swallowed ==
    /\ wrapper.pc = "try"
    /\ wrapper' = [wrapper EXCEPT !.pc = "returned",
                                  !.attempts = Append(@, "RedisError")]
    /\ ret' = Append(ret, None)
    /\ UNCHANGED <<cacheops, frames, upstream, secret, zone, now, request, gate, at, decoded, outcome, issued,
                   resp, archive, cache, background, args>>

\* A plausible slip: every RedisError is retried like a ConnectionError.
AttemptRedisError_retried ==
    /\ wrapper.pc = "try"
    /\ wrapper' = IF wrapper.retries = 0
                  THEN [wrapper EXCEPT !.pc = "raised", !.status = 500,
                                       !.attempts = Append(@, "RedisError")]
                  ELSE [wrapper EXCEPT !.retries = @ - 1,
                                       !.attempts = Append(@, "RedisError")]
    /\ UNCHANGED <<cacheops, frames, upstream, secret, zone, now, request, gate, at, decoded, outcome, issued,
                   resp, archive, cache, background, args, ret>>

\* except redis.exceptions.RedisError: raise HTTP 500.
AttemptRedisError ==
    /\ wrapper.pc = "try"
    /\ wrapper' = [wrapper EXCEPT !.pc = "raised", !.status = 500,
                                  !.attempts = Append(@, "RedisError")]
    /\ UNCHANGED <<cacheops, frames, upstream, secret, zone, now, request, gate, at, decoded, outcome, issued,
                   resp, archive, cache, background, args, ret>>

NextRedis == AttemptReturns \/ AttemptConnectionError \/ AttemptRedisError

SpecRedis == InitRedis /\ [][NextRedis]_vars

\* The interpreter keeps running the wrapper: an attempt that can be made
\* is made.
SpecRedisFair == SpecRedis /\ WF_vars(NextRedis)

----------------------------------------------------------------------------
(* SpecRace: two requests for the same rendition of the same asset, not    *)
(* yet cached, handled at the same time.  reprs.filerendition gives up     *)
(* control at each await: at persistence.get, at the requests made of      *)
(* Fotoware, and at persistence.set.  The asset is not replaced meanwhile. *)

Racers == 1..2

\* The frame of one call of filerendition, at its first await.
Frame(asset, traits) ==
    [pc |-> "get", asset |-> asset, traits |-> traits, content |-> None,
     status |-> 0]

RaceTraits ==
    {RenditionTrait(None, Some(TRUE), 0, 0, 0),
     RenditionTrait(Some("small"), None, 0, 0, 0),
     RenditionTrait(None, None, 0, SmallSide, 0),
     RenditionTrait(None, None, BigSide + 1, 0, 0)}

InitRace ==
    /\ secret = SECRET
    /\ zone = "UTC"
    /\ now = T0
    /\ request = Request(None, EmptyDict)
    /\ gate = QueryHeaderAuth(FALSE, NONE, TOKEN_MAX_DURATION_SHORT)
    /\ at = T0
    /\ decoded = NotCalled
    /\ outcome = "pending"
    /\ issued = Idle
    /\ resp = NoResponse
    /\ archive \in {{Asset(IdA, public)} : public \in BOOLEAN}
    /\ cache = {}
    /\ background = <<>>
    /\ upstream = <<>>
    /\ cacheops = <<>>
    /\ wrapper = NotWrapped
    /\ args = NoArgs
    /\ ret = <<>>
    /\ \E a \in archive, t \in RaceTraits : frames = [i \in Racers |-> Frame(a, t)]

\* find_rendition(asset["renditions"], **traits) of a frame
RenditionOf(f) ==
    find_rendition(f.asset.renditions, f.traits.profile, f.traits.size,
                   f.traits.width, f.traits.height, f.traits.original)

\* Lines 32-49: no rendition is a 400; otherwise content = await
\* persistence.get(cachekey), and a hit is returned as it is.
FrameGet(i) ==
    /\ frames[i].pc = "get"
    /\ LET f       == frames[i]
           content == persistence_get(cache, reprs_cachekey(f.asset, f.traits))
       IN frames' = [frames EXCEPT ![i] =
              IF RenditionOf(f) = None THEN [f EXCEPT !.pc = "done", !.status = 400]
              ELSE IF content # None
                   THEN [f EXCEPT !.pc = "done", !.status = 200, !.content = content]
              ELSE [f EXCEPT !.pc = "fetch"]]
    /\ UNCHANGED <<cacheops, upstream, wrapper, secret, zone, now, request, gate, at, decoded,
                   outcome, issued, resp, archive, cache, background, args, ret>>

\* Lines 50-52: the rendition request and the download.  Fotoware answers
\* with the bytes of the rendition, or the rendition request fails.
FrameFetch(i) ==
    /\ frames[i].pc = "fetch"
    /\ LET f    == frames[i]
           href == RenditionOf(f)[1].href
       IN \E fetched \in BOOLEAN :
            IF fetched
            THEN /\ frames' = [frames EXCEPT ![i] =
                        [f EXCEPT !.pc = "set", !.content = Some(Bytes(f.asset, href))]]
                 /\ upstream' = upstream \o <<RenderRequest(href), BinaryRequest(href)>>
            ELSE /\ frames' = [frames EXCEPT ![i] = [f EXCEPT !.pc = "done", !.status = 500]]
                 /\ upstream' = upstream \o <<RenderRequest(href)>>
    /\ UNCHANGED <<cacheops, wrapper, secret, zone, now, request, gate, at, decoded,
                   outcome, issued, resp, archive, cache, background, args, ret>>

\* Line 53 skipped: the fetched bytes are returned and not stored.
FrameSet_skipped(i) ==
    /\ frames[i].pc = "set"
    /\ frames' = [frames EXCEPT ![i] = [@ EXCEPT !.pc = "done", !.status = 200]]
    /\ UNCHANGED <<cacheops, upstream, wrapper, secret, zone, now, request, gate, at, decoded,
                   outcome, issued, resp, archive, cache, background, args, ret>>

\* Lines 53-59: await persistence.set(cachekey, content), then the response.
FrameSet(i) ==
    /\ frames[i].pc = "set"
    /\ LET f == frames[i]
       IN cache' = persistence_set(cache, reprs_cachekey(f.asset, f.traits), f.content[1])
    /\ frames' = [frames EXCEPT ![i] = [@ EXCEPT !.pc = "done", !.status = 200]]
    /\ UNCHANGED <<cacheops, upstream, wrapper, secret, zone, now, request, gate, at, decoded,
                   outcome, issued, resp, archive, background, args, ret>>

NextRace == \E i \in Racers : FrameGet(i) \/ FrameFetch(i) \/ FrameSet(i)

SpecRace == InitRace /\ [][NextRace]_vars

----------------------------------------------------------------------------
(* fotoware.py: find_all and find_single.  An asset of a search result is  *)
(* named by its href.                                                      *)

\* find_all(archive_id, field, value): the archive's description has a
\* searchURL or not; data is what the search at that URL answers.
find_all(searchable, data) ==
    IF ~searchable THEN Raise("HTTP503") ELSE [raised |-> "", value |-> data]

\* find_single(archive_id, field, value).  With more than one match the
\* arguments of logging.error are evaluated first, and json.dumps of a map
\* object raises TypeError before the raise statement is reached.
find_single(searchable, data) ==
    LET assets == find_all(searchable, data)
    IN IF assets.raised # "" THEN Raise(assets.raised)
       ELSE IF Len(assets.value) = 0 THEN Raise("HTTP404")
       ELSE IF Len(assets.value) > 1 THEN Raise("TypeError")
       ELSE Returned(assets.value[1])

----------------------------------------------------------------------------
(* SpecSingle: find_single called on one answer of the archive. *)

Matches == {"/a", "/b", "/c", "/d"}

SingleArgs ==
    [fn : {"find_single"}, searchable : BOOLEAN, data : SeqUpTo(Matches, MaxLen)]

InitSingle == Unused /\ args \in SingleArgs /\ ret = <<>>

FindSingle ==
    /\ args.fn = "find_single"
    /\ Len(ret) < MaxCalls
    /\ ret' = Append(ret, find_single(args.searchable, args.data))
    /\ UNCHANGED <<cacheops, frames, upstream, wrapper, secret, zone, now, request, gate, at,
                   decoded, outcome, issued, resp, archive, cache, background, args>>

NextSingle == FindSingle

SpecSingle == InitSingle /\ [][NextSingle]_vars

----------------------------------------------------------------------------
(* fotoware.py: access_token.  Redis keeps a key set with ex=seconds for   *)
(* that many seconds: an entry carries the instant it expires at, and GET  *)
(* finds it only before that instant.  expires_in is in whole seconds.     *)

ACCESS_TOKEN_KEY == "fotoware_access_token"

\* persistence.set(name, value, expires_in=...) with every entry kept for
\* ever: the expiry is dropped.
persistence_set_forever(store, name, value, expires_in, t) ==
    {e \in store : e.key # name}
        \cup {[key |-> name, value |-> value, expires |-> None]}

\* persistence.set(name, value, expires_in=...) at instant t:
\* CACHE.set(name, value, ex=expires_in).
persistence_set_ex(store, name, value, expires_in, t) ==
    {e \in store : e.key # name}
        \cup {[key |-> name, value |-> value,
               expires |-> IF expires_in = None THEN None ELSE Some(t + expires_in[1])]}

\* persistence.get(name) at instant t: CACHE.get(name), None for a key
\* that is not there or has expired.
persistence_get_at(store, name, t) ==
    LET live == {e \in store : e.key = name /\ (e.expires = None \/ t < e.expires[1])}
    IN IF live = {} THEN None ELSE Some((CHOOSE e \in live : TRUE).value)

\* request_new_access_token(): the POST to /fotoweb/oauth2/token.  Fotoware
\* answers a token it has not given before and the seconds it lasts.
TokenRequest(token, expires_in, t) ==
    [op |-> "oauth2/token", token |-> token, expires_in |-> expires_in, at |-> t]

\* access_token() at instant t, when the token endpoint would answer
\* (token, expires_in): the value returned, the cache and the requests made.
access_token(store, t, token, expires_in) ==
    LET value == persistence_get_at(store, ACCESS_TOKEN_KEY, t)
    IN IF value # None
       THEN [value |-> value[1], cache |-> store, calls |-> <<>>]
       ELSE [value |-> token,
             cache |-> persistence_set_ex(store, ACCESS_TOKEN_KEY, token,
                                          Some(expires_in), t),
             calls |-> <<TokenRequest(token, expires_in, t)>>]

----------------------------------------------------------------------------
(* SpecToken: access_token called again and again while the clock runs. *)

MaxClock == 4
MaxTokenCalls == 3
MaxExpiresIn == 2

InitToken ==
    /\ secret = SECRET
    /\ zone = "UTC"
    /\ now = T0
    /\ request = Request(None, EmptyDict)
    /\ gate = QueryHeaderAuth(FALSE, NONE, TOKEN_MAX_DURATION_SHORT)
    /\ at = T0
    /\ decoded = NotCalled
    /\ outcome = "pending"
    /\ issued = Idle
    /\ resp = NoResponse
    /\ archive = {}
    /\ cache = {}
    /\ background = <<>>
    /\ frames = <<>>
    /\ upstream = <<>>
    /\ cacheops = <<>>
    /\ wrapper = NotWrapped
    /\ args = [fn |-> "access_token"]
    /\ ret = <<>>

\* A second passes.
TickToken ==
    /\ now < T0 + MaxClock
    /\ now' = now + 1
    /\ UNCHANGED <<cacheops, frames, upstream, wrapper, secret, zone, request, gate, at, decoded,
                   outcome, issued, resp, archive, cache, background, args, ret>>

\* access_token() is called.  ret keeps what each call returned and when.
AccessToken ==
    /\ Len(ret) < MaxTokenCalls
    /\ \E expires_in \in 1..MaxExpiresIn :
         LET r == access_token(cache, now, Len(upstream) + 1, expires_in)
         IN /\ ret' = Append(ret, [at |-> now, value |-> r.value,
                                   requested |-> r.calls # <<>>])
            /\ cache' = r.cache
            /\ upstream' = upstream \o r.calls
    /\ UNCHANGED <<cacheops, frames, wrapper, secret, zone, now, request, gate, at, decoded,
                   outcome, issued, resp, archive, background, args>>

NextToken == TickToken \/ AccessToken

SpecToken == InitToken /\ [][NextToken]_vars

----------------------------------------------------------------------------
(* config.JWT_SECRET and SpecRestart: the life of a token across restarts  *)
(* of the process.  args holds the environment and the number of the run,  *)
(* ret the keys of the runs that ended.                                    *)

MaxRuns == 3

\* secrets.token_urlsafe() with one default for every run.
JWT_SECRET_constant(env, run) ==
    IF env # None THEN env[1] ELSE "urlsafe-0"

\* os.getenv("JWT_SECRET", secrets.token_urlsafe()), evaluated when
\* config.py is imported in run number `run`.  The 32 random bytes of a
\* run are modelled as a key no other run and no other party has.
JWT_SECRET(env, run) ==
    IF env # None THEN env[1]
    ELSE CASE run = 1 -> "urlsafe-1" [] run = 2 -> "urlsafe-2"
           [] run = 3 -> "urlsafe-3" [] OTHER -> "urlsafe-4"

InitRestart ==
    /\ args \in [fn : {"main"}, JWT_SECRET : {None, Some(SECRET)}, run : {1}]
    /\ secret = JWT_SECRET(args.JWT_SECRET, args.run)
    /\ zone = "UTC"
    /\ now = T0
    /\ request \in {Request(None, QueryParams(None, Some(r))) :
                        r \in {getresourceurl(IdA), getresourceurl(IdAB)}}
    /\ gate \in Gates
    /\ at = now
    /\ decoded = NotCalled
    /\ outcome = "pending"
    /\ issued = Idle
    /\ resp = NoResponse
    /\ archive = {}
    /\ cache = {}
    /\ background = <<>>
    /\ frames = <<>>
    /\ upstream = <<>>
    /\ cacheops = <<>>
    /\ wrapper = NotWrapped
    /\ ret = <<>>

\* The process ends and is started again: config.py is evaluated anew.
\* The client keeps the token it holds.
Restart ==
    /\ args.run < MaxRuns
    /\ args' = [args EXCEPT !.run = @ + 1]
    /\ secret' = JWT_SECRET(args.JWT_SECRET, args.run + 1)
    /\ ret' = Append(ret, secret)
    /\ decoded' = NotCalled
    /\ outcome' = "pending"
    /\ UNCHANGED <<cacheops, frames, upstream, wrapper, zone, now, request, gate, at, issued,
                   resp, archive, cache, background>>

NextRestart == Tick \/ Issue \/ Receive \/ Present \/ Restart

SpecRestart == InitRestart /\ [][NextRestart]_vars

----------------------------------------------------------------------------
(* assign_metadata_tasks.py.  An asset is a dict with an href and a        *)
(* metadata dict from field names to values; a missing key is a field      *)
(* without a value.                                                        *)

\* class Task(str, Enum), by value
TaskObjectDetection == "object-detection"
TaskPerceptualHash == "perceptual-hash"
TaskSha256 == "sha256"
TaskUuid == "uuid4"

\* The FOTOWARE_FIELDNAME_* settings of config.py: the field of each task,
\* None for a setting that is not given.  FOTOWARE_FIELDNAME_UUID has the
\* default "fn".
Fieldnames(sha256) ==
    [t \in {TaskObjectDetection, TaskPerceptualHash, TaskSha256, TaskUuid} |->
        CASE t = TaskUuid -> Some("fn")
          [] t = TaskSha256 -> sha256
          [] OTHER -> None]

\* task_info(task): the field's name and the function that calculates its
\* value.  Only calc_uuid is implemented; the others raise
\* NotImplementedError.
task_info(task, fieldnames) ==
    [field |-> fieldnames[task],
     func |-> IF task = TaskUuid THEN "calc_uuid" ELSE "NotImplementedError"]

\* The increasing sequence of the numbers of S.
Ascending(S) ==
    CHOOSE s \in [1..Cardinality(S) -> S] :
        \A i, j \in 1..Cardinality(S) : i < j => s[i] < s[j]

\* api.update_asset_metadata(href, metadata)
UpdateCall(href, metadata) ==
    [op |-> "update_asset_metadata", href |-> href, metadata |-> metadata]

\* exec_update_tasks without the check for a value already assigned.
exec_update_tasks_always(assets, tasks, fieldnames) ==
    LET todo  == {p \in (1..Len(assets)) \X (1..Len(tasks)) :
                     task_info(tasks[p[2]], fieldnames).field # None}
        first == {a \in {p[1] : p \in todo} :
                     \A b \in {p[1] : p \in todo} :
                         assets[b].href = assets[a].href => a <= b}
        order == Ascending(first)
        fields(a) == {task_info(tasks[p[2]], fieldnames).field[1] :
                         p \in {q \in todo : assets[q[1]].href = assets[a].href}}
    IN IF \E p \in todo : task_info(tasks[p[2]], fieldnames).func # "calc_uuid"
       THEN [raised |-> "NotImplementedError", calls |-> <<>>]
       ELSE [raised |-> "",
             calls |-> [k \in 1..Len(order) |->
                          UpdateCall(assets[order[k]].href,
                                     [f \in fields(order[k]) |-> [value |-> "new"]])]]

\* exec_update_tasks(assets=, tasks=).  todo is the (asset, task) pairs
\* that reach task_func: the task has a field, and the asset's value of it
\* is None or "" (the empty sequence).  A task_func that raises ends the call before any update
\* is sent.  combined_updates has one entry per href, in the order the
\* hrefs were first entered, and one update call is made per entry.
exec_update_tasks(assets, tasks, fieldnames) ==
    LET todo  == {p \in (1..Len(assets)) \X (1..Len(tasks)) :
                     LET field == task_info(tasks[p[2]], fieldnames).field
                     IN /\ field # None
                        /\ get(assets[p[1]].metadata, field[1], <<>>) = <<>>}
        first == {a \in {p[1] : p \in todo} :
                     \A b \in {p[1] : p \in todo} :
                         assets[b].href = assets[a].href => a <= b}
        order == Ascending(first)
        fields(a) == {task_info(tasks[p[2]], fieldnames).field[1] :
                         p \in {q \in todo : assets[q[1]].href = assets[a].href}}
    IN IF \E p \in todo : task_info(tasks[p[2]], fieldnames).func # "calc_uuid"
       THEN [raised |-> "NotImplementedError", calls |-> <<>>]
       ELSE [raised |-> "",
             calls |-> [k \in 1..Len(order) |->
                          UpdateCall(assets[order[k]].href,
                                     [f \in fields(order[k]) |-> [value |-> "new"]])]]

----------------------------------------------------------------------------
(* SpecUpdate: exec_update_tasks called on one list of assets with one     *)
(* list of tasks.  An asset listed twice is listed with the same metadata. *)

\* The metadata of an asset: each of the fields "fn" and "sha" is missing,
\* empty or has a value.
Metadatas ==
    {Dict([k \in {"fn", "sha"} |-> IF k = "fn" THEN fn ELSE sha]) :
        fn \in {None, Some(<<>>), Some(<<"v">>)}, sha \in {None, Some(<<"v">>)}}

UpdateArgs ==
    {a \in [fn : {"exec_update_tasks"},
            assets : SeqUpTo([href : {"/a", "/b"}, metadata : Metadatas], MaxLen),
            tasks : SeqUpTo({TaskUuid, TaskSha256}, MaxLen),
            fieldnames : {Fieldnames(None), Fieldnames(Some("sha"))}] :
        \A i, j \in 1..Len(a.assets) :
            a.assets[i].href = a.assets[j].href => a.assets[i] = a.assets[j]}

InitUpdate ==
    /\ secret = SECRET
    /\ zone = "UTC"
    /\ now = T0
    /\ request = Request(None, EmptyDict)
    /\ gate = QueryHeaderAuth(FALSE, NONE, TOKEN_MAX_DURATION_SHORT)
    /\ at = T0
    /\ decoded = NotCalled
    /\ outcome = "pending"
    /\ issued = Idle
    /\ resp = NoResponse
    /\ archive = {}
    /\ cache = {}
    /\ background = <<>>
    /\ frames = <<>>
    /\ upstream = <<>>
    /\ cacheops = <<>>
    /\ wrapper = NotWrapped
    /\ args \in UpdateArgs
    /\ ret = <<>>

\* The call: ret keeps whether it raised, upstream the update calls made.
ExecUpdateTasks ==
    /\ args.fn = "exec_update_tasks"
    /\ Len(ret) < 1
    /\ LET r == exec_update_tasks(args.assets, args.tasks, args.fieldnames)
       IN /\ ret' = Append(ret, r.raised)
          /\ upstream' = upstream \o r.calls
    /\ UNCHANGED <<cacheops, frames, wrapper, secret, zone, now, request, gate, at, decoded,
                   outcome, issued, resp, archive, cache, background, args>>

NextUpdate == ExecUpdateTasks

SpecUpdate == InitUpdate /\ [][NextUpdate]_vars

----------------------------------------------------------------------------
(* routers/tasks.py: the worker and the webhook that assign metadata, and  *)
(* the background tasks they and render_asset queue.  A task queued with   *)
(* background_tasks.add_task is run by the framework after the response    *)
(* of the request has been sent.                                           *)

\* The query parameter tasks, with its default [Task.uuid].
TasksOf(req) == get(req.query_params, "tasks", <<TaskUuid>>)

\* background_tasks.add_task(update_assets, tasks, archives, SE(query), limit)
UpdateAssetsTask(tasks) == [fn |-> "update_assets", assets |-> <<>>, tasks |-> tasks]

\* background_tasks.add_task(exec_update_tasks, assets=[asset], tasks=tasks)
ExecUpdateTask(asset, tasks) ==
    [fn |-> "exec_update_tasks", assets |-> <<asset>>, tasks |-> tasks]

\* worker_assign_metadata, once its gate let the request through.
worker_assign_metadata(req, store) ==
    Result(200, Some("Background task started"), store, <<UpdateAssetsTask(TasksOf(req))>>)

\* webhook_assign_metadata, once its gate let the request through: a body
\* without data is answered with null and queues nothing.
webhook_assign_metadata(req, store) ==
    IF req.body.data = None THEN Result(200, None, store, <<>>)
    ELSE Result(200, Some("Background task(s) started"), store,
                <<ExecUpdateTask(req.body.data[1], TasksOf(req))>>)

\* fotoware.search.find_all(archives, query, n=max): the assets of the
\* archive that the query matches, here all of them.
search_find_all(assets) ==
    CHOOSE s \in [1..Cardinality(assets) -> assets] :
        \A i, j \in 1..Cardinality(assets) : s[i] = s[j] => i = j

\* What running a queued task does: update_assets searches and then
\* awaits exec_update_tasks(...); the task of the webhook and of
\* render_asset is exec_update_tasks itself.  exec_update_tasks is a plain
\* function, so awaiting the dict it returns raises TypeError, after the
\* updates were sent.
run_task(task, assets, fieldnames) ==
    LET r == exec_update_tasks(IF task.fn = "update_assets"
                                   THEN search_find_all(assets) ELSE task.assets,
                               task.tasks, fieldnames)
    IN IF task.fn = "update_assets" /\ r.raised = ""
       THEN [r EXCEPT !.raised = "TypeError"]
       ELSE r

----------------------------------------------------------------------------
(* SpecWork: one request to the worker, to the webhook or to render_asset, *)
(* and then the background task it queued.  args holds the settings of     *)
(* the process.                                                            *)

\* An asset just ingested, as the webhook's body describes it: no
\* identifier yet.
Ingested == [href |-> <<"/", "n">>, metadata |-> EmptyDict]

WorkTokens ==
    {encode(Claims(Some(aud \o <<":">> \o IdA), None, Some(T0),
                   Some(T0 + TOKEN_MAX_DURATION_LONG)), SECRET) :
        aud \in {RenderAsset, UpdateAssetMetadata}}

WorkRequests ==
    {[httpcreds |-> httpcreds, path |-> path, path_params |-> EmptyDict,
      body |-> [data |-> data],
      query_params |-> Dict([k \in {"resource", "original", "tasks"} |->
                               CASE k = "resource" -> resource
                                 [] k = "original" -> original
                                 [] k = "tasks" -> tasks])] :
        httpcreds \in {None} \cup {Some(t) : t \in WorkTokens},
        path \in {PathRenderAsset, PathWorkerAssignMetadata, PathWebhookAssignMetadata},
        data \in {None, Some(Ingested), Some(Asset(IdA, TRUE))},
        resource \in {None, Some(getresourceurl(IdA))},
        original \in {None, Some(TRUE)},
        tasks \in {None, Some(<<TaskSha256>>), Some(<<TaskUuid, TaskSha256>>)}}

InitWork ==
    /\ secret = SECRET
    /\ zone = "UTC"
    /\ now = T0
    /\ request \in WorkRequests
    /\ gate = GateOf(request.path)
    /\ at = now
    /\ decoded = NotCalled
    /\ outcome = "pending"
    /\ issued = Idle
    /\ resp = NoResponse
    /\ archive \in {{Asset(IdA, public)} : public \in BOOLEAN}
    /\ cache = {}
    /\ background = <<>>
    /\ frames = <<>>
    /\ upstream = <<>>
    /\ cacheops = <<>>
    /\ wrapper = NotWrapped
    /\ args \in {[fn |-> "config", fieldnames |-> Fieldnames(sha256)] :
                    sha256 \in {None, Some("sha")}}
    /\ ret = <<>>

\* A route whose gate is required: when the dependency raises, the
\* framework answers with its status and the handler does not run.
RespondIfAuthorized(r) ==
    LET o == call(gate, request, secret, now, zone)
    IN IF Raised(o) THEN Respond(HTTPException(StatusOf(o), cache)) ELSE Respond(r)

WorkerAssignMetadataEndpoint ==
    /\ outcome = "pending"
    /\ request.path = PathWorkerAssignMetadata
    /\ RespondIfAuthorized(worker_assign_metadata(request, cache))

WebhookAssignMetadataEndpoint ==
    /\ outcome = "pending"
    /\ request.path = PathWebhookAssignMetadata
    /\ RespondIfAuthorized(webhook_assign_metadata(request, cache))

\* A failure of the task reaches the client: the response becomes a 500.
RunBackground_surfacing ==
    /\ resp # NoResponse
    /\ background # <<>>
    /\ LET r == run_task(Head(background), archive, args.fieldnames)
       IN /\ ret' = Append(ret, r.raised)
          /\ upstream' = upstream \o r.calls
          /\ resp' = IF r.raised # "" THEN [status |-> 500, content |-> None] ELSE resp
    /\ background' = Tail(background)
    /\ UNCHANGED <<cacheops, frames, wrapper, secret, zone, now, request, gate, at, decoded,
                   outcome, issued, archive, cache, args>>

\* The framework runs the first queued task, after the response.  What
\* the task raises is logged; ret keeps it.
RunBackground ==
    /\ resp # NoResponse
    /\ background # <<>>
    /\ LET r == run_task(Head(background), archive, args.fieldnames)
       IN /\ ret' = Append(ret, r.raised)
          /\ upstream' = upstream \o r.calls
    /\ background' = Tail(background)
    /\ UNCHANGED <<cacheops, frames, wrapper, secret, zone, now, request, gate, at, decoded,
                   outcome, issued, resp, archive, cache, args>>

NextWork ==
    \/ RenderAssetEndpoint
    \/ WorkerAssignMetadataEndpoint
    \/ WebhookAssignMetadataEndpoint
    \/ RunBackground

SpecWork == InitWork /\ [][NextWork]_vars

----------------------------------------------------------------------------
(* previews.py: stream_get_binary.  SpecStream: one call, request by       *)
(* request.  Fotoware answers each GET with status 200 or with another     *)
(* status; upstream keeps the answers, frames[1] is the frame of the call. *)

NUM_CONNECTION_RETRIES == 5

\* The statuses Fotoware gives while the rendition is not there.
NotReady == {202, 404, 500}

\* The answer to the k-th GET of href.
Response(href, k, status) ==
    [op |-> "GET", href |-> href, status |-> status,
     content |-> IF status = 200 THEN Some(<<href, k>>) ELSE None]

InitStream ==
    /\ secret = SECRET
    /\ zone = "UTC"
    /\ now = T0
    /\ request = Request(None, EmptyDict)
    /\ gate = QueryHeaderAuth(FALSE, NONE, TOKEN_MAX_DURATION_SHORT)
    /\ at = T0
    /\ decoded = NotCalled
    /\ outcome = "pending"
    /\ issued = Idle
    /\ resp = NoResponse
    /\ archive = {}
    /\ cache = {}
    /\ background = <<>>
    /\ upstream = <<>>
    /\ cacheops = <<>>
    /\ wrapper = NotWrapped
    /\ args = [fn |-> "stream_get_binary", href |-> "/rendition"]
    /\ ret = <<>>
    /\ frames = <<[pc |-> "get", retries |-> NUM_CONNECTION_RETRIES, status |-> 0]>>

\* requests.get answers 200: return asset.iter_content().
StreamGetOk ==
    /\ frames[1].pc = "get"
    /\ LET r == Response(args.href, Len(upstream) + 1, 200)
       IN /\ upstream' = Append(upstream, r)
          /\ ret' = Append(ret, r.content)
    /\ frames' = [frames EXCEPT ![1].pc = "returned"]
    /\ UNCHANGED <<cacheops, wrapper, secret, zone, now, request, gate, at, decoded,
                   outcome, issued, resp, archive, cache, background, args>>

\* A plausible slip: the last retry is not made.
StreamGetNotOk_early ==
    /\ frames[1].pc = "get"
    /\ \E status \in NotReady :
          upstream' = Append(upstream, Response(args.href, Len(upstream) + 1, status))
    /\ frames' = IF frames[1].retries <= 1
                 THEN [frames EXCEPT ![1].pc = "raised", ![1].status = 521]
                 ELSE [frames EXCEPT ![1].retries = @ - 1]
    /\ UNCHANGED <<cacheops, wrapper, secret, zone, now, request, gate, at, decoded,
                   outcome, issued, resp, archive, cache, background, args, ret>>

\* requests.get answers another status: raise HTTP 521 when retries is 0,
\* else count the retry down, sleep and ask again.
StreamGetNotOk ==
    /\ frames[1].pc = "get"
    /\ \E status \in NotReady :
          upstream' = Append(upstream, Response(args.href, Len(upstream) + 1, status))
    /\ frames' = IF frames[1].retries = 0
                 THEN [frames EXCEPT ![1].pc = "raised", ![1].status = 521]
                 ELSE [frames EXCEPT ![1].retries = @ - 1]
    /\ UNCHANGED <<cacheops, wrapper, secret, zone, now, request, gate, at, decoded,
                   outcome, issued, resp, archive, cache, background, args, ret>>

NextStream == StreamGetOk \/ StreamGetNotOk

SpecStream == InitStream /\ [][NextStream]_vars

\* Fotoware answers every request, and the interpreter keeps running the
\* loop.
SpecStreamFair == SpecStream /\ WF_vars(NextStream)

----------------------------------------------------------------------------
(* SpecGate: one request to the gate of any route, the worker's and the    *)
(* webhook's among them, with or without a resource parameter.             *)

\* The gates of the routes.
RouteGates ==
    {GateOf(path) : path \in {PathRenderAsset, PathResourcePreview, PathJsonldManifest,
                              PathWorkerAssignMetadata, PathWebhookAssignMetadata}}

\* Tokens for asset a with each audience, of a short, a long and an
\* over-long life, signed by the secret or by another key, in the legacy
\* encoding and as tokencontents makes them.
GateTokens ==
    {encode(Claims(Some(aud \o <<":">> \o IdA), None, Some(T0), Some(T0 + dur)), signer) :
        aud \in {RenderAsset, PreviewAsset, RenderFullManifest, UpdateAssetMetadata},
        dur \in {TOKEN_MAX_DURATION_SHORT, TOKEN_MAX_DURATION_LONG,
                 TOKEN_MAX_DURATION_LONG + 1},
        signer \in {SECRET, OTHERKEY}}
    \cup {tokencontents(IdA, aud, TOKEN_MAX_DURATION_LONG, SECRET, T0, T0) :
             aud \in {RenderFullManifest, UpdateAssetMetadata}}

GateRequests ==
    {Request(None, QueryParams(None, r)) : r \in OptResources}
    \cup {Request(Some(tok), QueryParams(None, r)) : tok \in GateTokens, r \in OptResources}
    \cup {Request(None, QueryParams(Some(tok), r)) : tok \in GateTokens, r \in OptResources}

InitGate ==
    /\ secret = SECRET
    /\ zone \in Zones
    /\ now \in {T0, T0 + TOKEN_MAX_DURATION_SHORT}
    /\ request \in GateRequests
    /\ gate \in RouteGates
    /\ at = now
    /\ decoded = NotCalled
    /\ outcome = "pending"
    /\ issued = Idle
    /\ resp = NoResponse
    /\ archive = {}
    /\ cache = {}
    /\ background = <<>>
    /\ frames = <<>>
    /\ upstream = <<>>
    /\ cacheops = <<>>
    /\ wrapper = NotWrapped
    /\ args = NoArgs
    /\ ret = <<>>

NextGate == Call

SpecGate == InitGate /\ [][NextGate]_vars

----------------------------------------------------------------------------
(* Notions the properties are stated in *)

Handled == outcome # "pending"

HasToken == supplied(request) # None

\* The token the request supplies (when HasToken).
Tok == supplied(request)[1]

\* The signature is the secret's, over this payload, with the one algorithm.
SignatureVerifies(tok) == tok.alg = "HS256" /\ tok.sig = Sign(secret, tok.payload)

HasTimes(tok) == "iat" \in DOMAIN tok.payload /\ "exp" \in DOMAIN tok.payload

\* The token's audience string: the aud claim, or in the legacy encoding
\* the part of sub before the first colon; None when it has neither.
AudString(tok) ==
    IF "aud" \in DOMAIN tok.payload THEN Some(tok.payload["aud"])
    ELSE IF "sub" \in DOMAIN tok.payload /\ contains(tok.payload["sub"], ":")
         THEN Some(split1(tok.payload["sub"], ":")[1])
    ELSE None

\* The identifier the request asks for (None: no canonical resource).
Identifier ==
    LET res == get(request.query_params, "resource", <<>>)
    IN IF startswith(res, CANONICAL_HOST_BASE)
       THEN Some(SubSeq(res, Len(CANONICAL_HOST_BASE) + 1, Len(res))) ELSE None

\* The request with another token in the place of its own.
WithToken(req, tok) ==
    IF req.httpcreds # None THEN [req EXCEPT !.httpcreds = Some(tok)]
    ELSE [req EXCEPT !.query_params["token"] = tok]

----------------------------------------------------------------------------
(* C1 *)

\* C1: the gate returns True only if the token decodes, its subject is the
\* request's identifier, its audience is the gate's, and its validity
\* duration exp - iat does not exceed the gate's maxdur.
C1_AuthorizedOnlyIf ==
    outcome = "True" =>
        /\ HasToken
        /\ decoded.status = 200
        /\ Identifier = Some(decoded.sub)
        /\ decoded.aud = gate.aud
        /\ Tok.payload["exp"] - Tok.payload["iat"] <= gate.maxdur

----------------------------------------------------------------------------
(* C5 *)

\* The request is one of the unauthorized cases: no token, a token that
\* does not decode, a resource that is not canonical, or a mismatch of
\* subject, audience or duration.
UnauthorizedCase ==
    \/ ~HasToken
    \/ decoded.status # 200
    \/ Identifier = None
    \/ Identifier # Some(decoded.sub)
    \/ decoded.aud # gate.aud
    \/ decoded.dur > gate.maxdur

\* C5: with required=True every unauthorized case ends in a raised 401 or
\* 403 and the endpoint's body does not run; with required=False the gate
\* raises in none of them and returns False.
C5_RequiredRaisesOptionalFlags ==
    (Handled /\ UnauthorizedCase) =>
        IF gate.auth_is_required
        THEN outcome \in {"HTTP401", "HTTP403"} /\ resp.status \in {401, 403} /\ ~resp.body
        ELSE outcome = "False" /\ resp.body

\* A required gate has refused a decodable token of the wrong subject.
C5_Witness ==
    /\ Handled /\ gate.auth_is_required /\ HasToken
    /\ decoded.status = 200 /\ Identifier # None /\ Identifier # Some(decoded.sub)
    /\ outcome = "HTTP403" /\ ~resp.body

----------------------------------------------------------------------------
(* C6 *)

\* C6: a token whose signature does not verify under the secret is rejected
\* by sub_aud_dur_claims with 403 whatever its payload is, and the gate
\* does not authorize it.
C6_BadSignatureRejected ==
    (Handled /\ HasToken /\ ~SignatureVerifies(Tok)) =>
        decoded = Forbidden /\ outcome \in {"False", "HTTP403"}

\* A token signed by another key has been rejected whose payload, signed
\* by the secret, the same gate authorizes for the same request.
C6_Witness ==
    /\ Handled /\ HasToken /\ Tok.alg = "HS256" /\ Tok.sig = Sign(OTHERKEY, Tok.payload)
    /\ call(gate, WithToken(request, encode(Tok.payload, secret)), secret, at, zone) = "True"
    /\ decoded = Forbidden

----------------------------------------------------------------------------
(* C7 *)

\* The token is a verifying legacy token "{a}:{s}" of a member audience a,
\* with iat and exp, that PyJWT's time checks pass at the instant `at`.
LegacyToken(tok) ==
    /\ SignatureVerifies(tok) /\ HasTimes(tok)
    /\ "aud" \notin DOMAIN tok.payload
    /\ AudString(tok) # None /\ AudString(tok)[1] \in TokenAudMembers
    /\ tok.payload["exp"] > at - LEEWAY

\* The modern token of the same subject, audience, iat and exp.
ModernOf(tok) ==
    LET parts == split1(tok.payload["sub"], ":")
    IN encode(Claims(Some(parts[2]), Some(parts[1]),
                     Some(tok.payload["iat"]), Some(tok.payload["exp"])), secret)

\* C7: a legacy token and the modern token of the same subject, audience,
\* iat and exp both decode through sub_aud_dur_claims, to the same result.
C7_LegacyModernAgree ==
    (Handled /\ HasToken /\ LegacyToken(Tok)) =>
        /\ decoded.status = 200
        /\ sub_aud_dur_claims(ModernOf(Tok), secret, at, zone) = decoded

----------------------------------------------------------------------------
(* C9 *)

\* C9: sub_aud_dur_claims fails with 403 for every token whose audience
\* string is no value of TokenAud and for every token that lacks iat or
\* exp; a result's audience is the token's audience string, never another
\* member.
C9_UnknownAudienceOrNoTimes ==
    (Handled /\ HasToken) =>
        /\ (AudString(Tok) # None /\ AudString(Tok)[1] \notin TokenAudMembers)
               => decoded = Forbidden
        /\ ~HasTimes(Tok) => decoded = Forbidden
        /\ (decoded.status = 200 /\ AudString(Tok) # None)
               => decoded.aud = AudString(Tok)[1]

\* A verifying, unexpired legacy token with iat and exp whose audience is
\* unknown has been rejected.
C9_Witness ==
    /\ Handled /\ HasToken /\ SignatureVerifies(Tok) /\ HasTimes(Tok)
    /\ Tok.payload["exp"] > at - LEEWAY
    /\ "aud" \notin DOMAIN Tok.payload
    /\ AudString(Tok) # None /\ AudString(Tok)[1] \notin TokenAudMembers
    /\ decoded = Forbidden

----------------------------------------------------------------------------
(* C10 *)

\* The token is invalid: bad signature, missing claims, unknown audience,
\* or expired.
TokenInvalid(tok) ==
    \/ ~SignatureVerifies(tok)
    \/ ~HasTimes(tok)
    \/ (AudString(tok) # None /\ AudString(tok)[1] \notin TokenAudMembers)
    \/ ("exp" \in DOMAIN tok.payload /\ tok.payload["exp"] <= at - LEEWAY)

\* C10 as claimed: a required gate answers every request it refuses with
\* the same status, so that the answer does not tell whether the token
\* itself was valid.
C10_NoValidityOracle ==
    (Handled /\ gate.auth_is_required /\ HasToken /\ outcome # "True") =>
        outcome = "HTTP403"

\* C10 as amended: a required gate answers every request with an invalid
\* token with 403, whatever made the token invalid and whatever the
\* resource parameter is.
C10_InvalidTokenUniform ==
    (Handled /\ gate.auth_is_required /\ HasToken /\ TokenInvalid(Tok)) =>
        outcome = "HTTP403" /\ resp.status = 403

\* An expired token on a request without a canonical resource got 403.
C10_Witness ==
    /\ Handled /\ gate.auth_is_required /\ HasToken
    /\ SignatureVerifies(Tok) /\ "exp" \in DOMAIN Tok.payload
    /\ Tok.payload["exp"] <= at - LEEWAY
    /\ Identifier = None
    /\ outcome = "HTTP403"

----------------------------------------------------------------------------
(* The life of a token (SpecLife) *)

\* The request presents the token that was issued for it, to the gate of
\* the token's audience, on the URL of the token's subject.
PresentedAsIssued ==
    /\ Handled
    /\ issued # Idle
    /\ supplied(request) = Some(issued.token)
    /\ gate.aud = issued.aud
    /\ Identifier = Some(issued.sub)

\* C2: a token made by tokencontents(sub, aud, dur) and presented before its
\* expiry to the gate of the same audience, on the matching identifier, is
\* authorized exactly when dur <= maxdur, dur = maxdur included; the
\* duration the gate computes is the duration the token was issued with.
C2_IssuedTokenWithinCeiling ==
    (PresentedAsIssued /\ issued.how = "tokencontents"
        /\ at < issued.token.payload["exp"])
    => /\ (outcome = "True") <=> (issued.dur <= gate.maxdur)
       /\ decoded.status = 200
       /\ decoded.dur = issued.dur

\* The gate would authorize this request at the instant its token was
\* issued: the token is acceptable, timing apart.
OtherwiseAcceptable ==
    /\ HasToken
    /\ "iat" \in DOMAIN Tok.payload
    /\ call(gate, request, secret, Tok.payload["iat"], zone) = "True"

\* C8: expiry is enforced with LEEWAY seconds of slack.  A token presented
\* once exp + LEEWAY has been reached is never authorized; a token that is
\* acceptable otherwise is authorized at every instant from iat up to, not
\* including, exp + LEEWAY; and nothing revokes a token: authorized once,
\* it is authorized again whenever it is presented again in that window.
C8_LeewayWindow ==
    /\ [](Handled /\ HasToken /\ "exp" \in DOMAIN Tok.payload
            /\ at >= Tok.payload["exp"] + LEEWAY
          => outcome # "True")
    /\ [](Handled /\ OtherwiseAcceptable
            /\ at >= Tok.payload["iat"] /\ at < Tok.payload["exp"] + LEEWAY
          => outcome = "True")
    /\ [][(outcome = "True" /\ request' = request /\ gate' = gate
              /\ at' # at /\ at' < Tok.payload["exp"] + LEEWAY)
          => outcome' = "True"]_vars

\* A token is authorized after its exp, inside the leeway, having been
\* authorized before.
C8_Witness ==
    /\ outcome = "True"
    /\ at >= Tok.payload["exp"]
    /\ at = T0 + TOKEN_MAX_DURATION_SHORT + LEEWAY - 1

----------------------------------------------------------------------------
(* Serving binary content (SpecServe) *)

\* The identifier the endpoint looks the asset up with.
AskedIdentifier ==
    IF request.path = PathRenderRendition
    THEN Some(request.path_params["identifier"])
    ELSE Identifier

\* The endpoint found the asset it was asked for.
AssetFound ==
    /\ AskedIdentifier # None
    /\ find(archive, AskedIdentifier[1]).status = 200

AskedAsset == find(archive, AskedIdentifier[1]).asset

\* C3: the endpoints never serve the binary content of a non-public asset
\* to a request the gate did not authorize: the request is rejected and
\* no rendition or preview bytes are returned.
C3_NoBytesUnlessAuthorized ==
    (Handled /\ AssetFound /\ ~is_public(AskedAsset) /\ outcome # "True")
    => resp.status # 200 /\ resp.content = None

\* C4: a request for a rendition or a preview is not rejected with 401
\* when the asset is public or the gate authorized the request.
C4_ServedWhenPublicOrAuthorized ==
    (Handled /\ AssetFound /\ (is_public(AskedAsset) \/ outcome = "True"))
    => resp.status # 401

----------------------------------------------------------------------------
(* C11 *)

\* The request carries a token in its header and one in its query.
CarriesBoth == request.httpcreds # None /\ "token" \in DOMAIN request.query_params

\* The request without its query token.
HeaderOnly(req) ==
    [req EXCEPT !.query_params =
        [k \in DOMAIN req.query_params \ {"token"} |-> req.query_params[k]]]

\* The request without its header token.
QueryOnly(req) == [req EXCEPT !.httpcreds = None]

\* C11: when a request carries both a bearer header and a token query
\* parameter, the gate's outcome is the outcome of the header token alone:
\* what the gate decoded is the header token, and the outcome is the one
\* of the same request without its query token.
C11_HeaderTakesPrecedence ==
    (Handled /\ CarriesBoth) =>
        /\ decoded = sub_aud_dur_claims(request.httpcreds[1], secret, at, zone)
        /\ outcome = call(gate, HeaderOnly(request), secret, at, zone)

\* A query token that the gate would authorize on its own did not rescue a
\* request whose header token is invalid.
C11_Witness ==
    /\ Handled /\ CarriesBoth
    /\ call(gate, QueryOnly(request), secret, at, zone) = "True"
    /\ ~SignatureVerifies(request.httpcreds[1])
    /\ outcome # "True"

----------------------------------------------------------------------------
(* C12 *)

\* The rendition satisfies every constraint of the call.
Qualifies(r) ==
    /\ args.profile # None => r.profile = args.profile[1]
    /\ args.original # None => r.original = args.original[1]
    /\ (IF r.width <= r.height THEN r.width ELSE r.height) >= args.size
    /\ r.width >= args.width
    /\ r.height >= args.height

\* C12: find_rendition returns the first rendition of the list that
\* satisfies every constraint, None when none does, never a later one
\* while an earlier one qualifies, and the same on every call.
C12_FirstQualifyingRendition ==
    \A c \in 1..Len(ret) :
        /\ IF \E i \in 1..Len(args.data) : Qualifies(args.data[i])
           THEN \E i \in 1..Len(args.data) :
                   /\ Qualifies(args.data[i])
                   /\ \A j \in 1..(i - 1) : ~Qualifies(args.data[j])
                   /\ ret[c] = Some(args.data[i])
           ELSE ret[c] = None
        /\ ret[c] = ret[1]

\* Two calls returned the second element of the list: the first does not
\* qualify, a different second one does.
C12_Witness ==
    /\ args.fn = "find_rendition"
    /\ Len(ret) = MaxCalls
    /\ Len(args.data) >= 2
    /\ ~Qualifies(args.data[1])
    /\ ret[1] = Some(args.data[2])

----------------------------------------------------------------------------
(* C13 *)

\* The preview is at least as large as each requested minimum, and square
\* or not as requested.
LargeEnough(i) ==
    /\ i.size >= args.min_size[1]
    /\ i.width >= args.min_width[1]
    /\ i.height >= args.min_height[1]
    /\ args.must_be_square # None => i.square = args.must_be_square[1]

\* C13: find_appropriate_preview returns the href of the first preview, in
\* list order, whose size, width and height are each at least the
\* requested minimum (equal qualifies) and whose square flag is the one
\* asked for, when one is asked for.
C13_FirstLargeEnoughPreview ==
    \A c \in 1..Len(ret) :
        (args.fn = "find_appropriate_preview" /\ args.min_size # None) =>
            \A k \in 1..Len(args.data) :
                (LargeEnough(args.data[k])
                    /\ \A j \in 1..(k - 1) : ~LargeEnough(args.data[j]))
                => ret[c] = Returned(args.data[k].href)

----------------------------------------------------------------------------
(* C14 *)

\* Every preview of the list is narrower than the requested minimum, or
\* the list is empty: no preview satisfies the request.
NoPreviewMatches ==
    /\ args.fn = "find_appropriate_preview"
    /\ args.min_size # None
    /\ \A k \in 1..Len(args.data) : args.data[k].width < args.min_width[1]

\* C14: when no rendition or preview satisfies the requested traits, the
\* selection reports "no match" as a normal result (which the handler
\* turns into HTTP 400), it does not raise.
C14_NoMatchIsNormalResult ==
    \A c \in 1..Len(ret) : NoPreviewMatches => ret[c].raised = ""

----------------------------------------------------------------------------
(* C15 *)

\* C15: after an asset is uploaded anew under the same identifier, no
\* filerendition or filepreview request returns bytes that were written to
\* the cache before: the bytes a request returns are those of the asset as
\* it is at the time of the request.
C15_NoStaleBytesAfterReupload ==
    (args.fn \in {"filerendition", "filepreview"} /\ resp.status = 200)
    => resp.content[1].modified = args.asset.modified

----------------------------------------------------------------------------
(* C16 *)

\* The asset the c-th call of key was made on.
KeyedAsset(c) == args.assets[((c - 1) % 2) + 1]

\* The identity component of an asset: physicalFileId, or href when that
\* is empty.
IdentityOf(asset) ==
    IF asset.physicalFileId = <<>> THEN asset.href ELSE asset.physicalFileId

\* C16: persistence.key is deterministic and change-sensitive.  Calls on
\* assets with equal identity component and equal modified stamp return
\* the same key; calls on assets that differ only in the modified stamp
\* return different keys.
C16_KeyDeterministicChangeSensitive ==
    \A c, d \in 1..Len(ret) :
        /\ (IdentityOf(KeyedAsset(c)) = IdentityOf(KeyedAsset(d))
              /\ KeyedAsset(c).modified = KeyedAsset(d).modified)
           => ret[c] = ret[d]
        /\ (KeyedAsset(c).physicalFileId = KeyedAsset(d).physicalFileId
              /\ KeyedAsset(c).href = KeyedAsset(d).href
              /\ KeyedAsset(c).modified # KeyedAsset(d).modified)
           => ret[c] # ret[d]

\* key was called twice on each of two assets that differ only in the
\* modified stamp, one a prefix of the other, and whose physicalFileId is
\* empty.
C16_Witness ==
    /\ args.fn = "key"
    /\ Len(ret) = 2 * MaxCalls
    /\ args.assets[1].physicalFileId = <<>>
    /\ args.assets[2].physicalFileId = <<>>
    /\ args.assets[1].href = args.assets[2].href
    /\ args.assets[2].modified = args.assets[1].modified \o <<"1">>
    /\ ret[1] # ret[2]
    /\ ret[3] = ret[1]

----------------------------------------------------------------------------
(* C17 *)

\* The href of the rendition or preview the access is for.
AccessedHref ==
    IF args.fn = "filerendition"
    THEN find_rendition(args.asset.renditions, args.traits.profile, args.traits.size,
                        args.traits.width, args.traits.height, args.traits.original)[1].href
    ELSE find_preview(args.asset.previews, args.traits.size, args.traits.width,
                      args.traits.height, args.traits.square)[1].href

\* The call got as far as persistence.get: filepreview always does,
\* filerendition unless no rendition matches.
ReachedCache(fn, status) ==
    fn = "filepreview" \/ (fn = "filerendition" /\ status # 400)

\* C17: cache keys are collision-free.  Two cache accesses that differ in
\* asset identity, change stamp, kind or variant never use the same key,
\* and the bytes an access returns are never those stored for another
\* (asset, stamp, kind, variant).
C17_KeysCollisionFree ==
    /\ []((args.fn \in {"filerendition", "filepreview"} /\ resp.status = 200)
            => resp.content[1] = Bytes(args.asset, AccessedHref))
    /\ [][(ReachedCache(args.fn, resp.status)
             /\ ReachedCache(args'.fn, resp'.status)
             /\ (args'.asset.id # args.asset.id
                   \/ args'.asset.modified # args.asset.modified
                   \/ args'.fn # args.fn
                   \/ args'.traits # args.traits))
          => reprs_cachekey(args'.asset, args'.traits)
                 # reprs_cachekey(args.asset, args.traits)]_vars

----------------------------------------------------------------------------
(* C18, C19, C20: try_redis (SpecRedis) *)

Attempts == Len(wrapper.attempts)

LastAttempt == wrapper.attempts[Attempts]

\* Every attempt so far failed with a connection error.
AllConnectionErrors ==
    \A i \in 1..Attempts : wrapper.attempts[i] = "ConnectionError"

Terminated == wrapper.pc \in {"returned", "raised"}

\* C18 as claimed: when every attempt fails with a connection error, the
\* wrapper has made num_retries attempts in total, 5 with the default,
\* when it raises.
C18_FiveAttemptsInTotal ==
    (wrapper.pc = "raised" /\ AllConnectionErrors) => Attempts = wrapper.num_retries

\* C18 as amended: the wrapper never makes more than num_retries + 1
\* attempts; when every attempt fails with a connection error it makes
\* exactly num_retries + 1 of them, 6 with the default, and then raises
\* HTTP 500; every call terminates.
C18_BoundedAttemptsThenRaise ==
    /\ [](Attempts <= wrapper.num_retries + 1)
    /\ []((wrapper.pc = "raised" /\ AllConnectionErrors)
            => Attempts = wrapper.num_retries + 1 /\ wrapper.status = 500)
    /\ []((AllConnectionErrors /\ Attempts = wrapper.num_retries + 1)
            => wrapper.pc = "raised")
    /\ <>Terminated

\* With the default setting, six attempts failed with a connection error
\* and the wrapper raised HTTP 500.
C18_Witness ==
    /\ wrapper.pc = "raised"
    /\ wrapper.num_retries = NUM_RETRIES
    /\ AllConnectionErrors
    /\ Attempts = NUM_RETRIES + 1
    /\ wrapper.status = 500

\* C19: a wrapped set returns normally only if the store write was carried
\* out and succeeded.  A successful attempt after at most num_retries
\* connection failures stores the value and its result is returned; in
\* every other case HTTP 500 is raised and nothing is returned.
C19_SetReturnsOnlyAfterWrite ==
    (wrapper.pc # "none" /\ args.fn = "set") =>
        /\ wrapper.pc = "returned" =>
              /\ LastAttempt = "ok"
              /\ Attempts - 1 <= wrapper.num_retries
              /\ persistence_get(cache, args.name) = Some(args.value)
              /\ ret = <<Some("True")>>
        /\ (Attempts > 0 /\ LastAttempt = "ok") => wrapper.pc = "returned"
        /\ (Terminated /\ LastAttempt # "ok") =>
              /\ wrapper.pc = "raised"
              /\ wrapper.status = 500
              /\ ret = <<>>

\* A set returned after as many connection failures as the default allows,
\* and the value is in the store.
C19_Witness ==
    /\ args.fn = "set"
    /\ wrapper.pc = "returned"
    /\ wrapper.num_retries = NUM_RETRIES
    /\ Attempts = NUM_RETRIES + 1
    /\ persistence_get(cache, args.name) = Some(args.value)

\* C20 as claimed: when the wrapper raises on a store error that is not a
\* connection error, the wrapped operation was invoked exactly once.
C20_InvokedExactlyOnce ==
    (wrapper.pc = "raised" /\ LastAttempt = "RedisError") => Attempts = 1

\* C20 as amended: a store error that is not a connection error is never
\* retried.  The attempt that fails with it is the last, and the wrapper
\* raises HTTP 500 at once, whatever retry budget remains; connection
\* errors retried before it count as invocations.
C20_StoreErrorNotRetried ==
    \A i \in 1..Attempts :
        wrapper.attempts[i] = "RedisError" =>
            /\ i = Attempts
            /\ wrapper.pc = "raised"
            /\ wrapper.status = 500

\* The wrapper raised on a store error at the first attempt, with the
\* whole default budget left.
C20_Witness ==
    /\ wrapper.pc = "raised"
    /\ Attempts = 1
    /\ LastAttempt = "RedisError"
    /\ wrapper.retries = NUM_RETRIES
    /\ wrapper.status = 500

----------------------------------------------------------------------------
(* C21 *)

\* Both calls have returned or raised.
BothDone == \A i \in Racers : frames[i].pc = "done"

\* Fotoware answered every request the two calls made of it, and the asset
\* has the rendition asked for.
UpstreamAnswered == \A i \in Racers : frames[i].status \notin {400, 500}

\* The cache entries under the key of the two calls.
RaceEntries == {e \in cache : e.key = reprs_cachekey(frames[1].asset, frames[1].traits)}

\* C21: two calls of filerendition for the same uncached rendition, in any
\* interleaving: when Fotoware answers, both return 200 with the same
\* bytes, and afterwards the cache holds exactly one entry under their key,
\* whose value is the bytes returned.
C21_ConcurrentMissesAgree ==
    (BothDone /\ UpstreamAnswered) =>
        /\ \A i \in Racers : frames[i].status = 200 /\ frames[i].content # None
        /\ frames[1].content = frames[2].content
        /\ Cardinality(RaceEntries) = 1
        /\ \A e \in RaceEntries : Some(e.value) = frames[1].content

\* Both calls missed and both fetched: Fotoware was asked twice for the
\* rendition, and both calls returned.
C21_Witness ==
    /\ BothDone
    /\ \A i \in Racers : frames[i].status = 200
    /\ Len(upstream) = 4
    /\ Cardinality(RaceEntries) = 1

----------------------------------------------------------------------------
(* C22 *)

\* C22: find_single returns an asset only when the search has exactly one
\* match, and then that match; when the search has no match or more than
\* one, it raises HTTP 404 and returns none of the candidates.
C22_SingleMatchOr404 ==
    \A c \in 1..Len(ret) :
        /\ ret[c].raised = "" => (Len(args.data) = 1 /\ ret[c].value = args.data[1])
        /\ (args.searchable /\ Len(args.data) # 1) => ret[c].raised = "HTTP404"

----------------------------------------------------------------------------
(* C23 *)

\* The tokens that the calls of access_token before call c asked for.
Earlier(c) == {ret[d].value : d \in {d \in 1..(c - 1) : ret[d].requested}}

\* The token of request k is within its expires_in at instant t.
LiveAt(k, t) == upstream[k].at <= t /\ t < upstream[k].at + upstream[k].expires_in

\* C23: a call of access_token returns the cached token while the cache
\* holds one, and asks Fotoware for a new one only on a miss; the new token
\* is stored under the dedicated key to expire expires_in seconds after it
\* was stored, so a call made once that time has passed asks for a fresh
\* token and does not return the old one.
C23_TokenCachedForItsLifetime ==
    /\ \A c \in 1..Len(ret) :
          LET live == {k \in Earlier(c) : LiveAt(k, ret[c].at)}
          IN IF live # {}
             THEN ~ret[c].requested /\ ret[c].value \in live
             ELSE /\ ret[c].requested
                  /\ ret[c].value \notin Earlier(c)
                  /\ upstream[ret[c].value].at = ret[c].at
    /\ \A e \in cache :
          /\ e.key = ACCESS_TOKEN_KEY
          /\ e.value = Len(upstream)
          /\ e.expires = Some(upstream[e.value].at + upstream[e.value].expires_in)

\* A token was requested, returned again from the cache while it lasted,
\* and replaced by a fresh one at the call after its expiry.
C23_Witness ==
    /\ Len(ret) = 3
    /\ ret[1].requested /\ ~ret[2].requested /\ ret[3].requested
    /\ ret[2].value = ret[1].value
    /\ ret[3].value # ret[1].value
    /\ ret[3].at = upstream[1].at + upstream[1].expires_in

----------------------------------------------------------------------------
(* C24 *)

\* The token of the request was signed with the key of a run that ended.
FromEarlierRun(tok) == \E k \in 1..Len(ret) : tok.sig.key = ret[k]

\* C24: the signing key changes only when the process restarts; a token
\* whose signature is not the current key's is never authorized; when
\* JWT_SECRET is unset, a token signed in an earlier run is rejected by the
\* gates of a later run; and a token the process issues verifies under the
\* key of the run that issued it.
C24_KeyFixedPerRun ==
    /\ []((Handled /\ HasToken /\ ~SignatureVerifies(Tok)) => outcome # "True")
    /\ []((Handled /\ HasToken /\ args.JWT_SECRET = None /\ FromEarlierRun(Tok))
             => outcome # "True")
    /\ [][args'.run = args.run => secret' = secret]_vars
    /\ [][(issued'.how = "tokencontents" /\ issued' # issued) =>
             (issued'.token.alg = "HS256"
              /\ issued'.token.sig = Sign(secret, issued'.token.payload))]_vars

\* A token that the run which signed it would authorize was presented
\* after a restart with JWT_SECRET unset, and was not authorized.
C24_Witness ==
    /\ Handled /\ HasToken
    /\ args.JWT_SECRET = None /\ args.run > 1
    /\ FromEarlierRun(Tok)
    /\ call(gate, request, Tok.sig.key, at, zone) = "True"
    /\ outcome # "True"

----------------------------------------------------------------------------
(* C26 *)

\* The asset of the call's list with this href has no value of the field:
\* the key is missing or its value is "".
LacksValue(href, field) ==
    \E i \in 1..Len(args.assets) :
        /\ args.assets[i].href = href
        /\ get(args.assets[i].metadata, field, <<>>) = <<>>

\* The fields of the tasks asked for.
AskedFields ==
    {args.fieldnames[args.tasks[t]][1] :
        t \in {t \in 1..Len(args.tasks) : args.fieldnames[args.tasks[t]] # None}}

\* C26: exec_update_tasks sends a value for a field only to an asset that
\* has no value of that field, and only for the field of a task asked for;
\* an asset that has a value of every asked field gets no update call; and
\* no href gets more than one update call.
C26_OnlyMissingFieldsUpdated ==
    /\ \A k \in 1..Len(upstream) :
          /\ upstream[k].op = "update_asset_metadata"
          /\ DOMAIN upstream[k].metadata # {}
          /\ \A f \in DOMAIN upstream[k].metadata :
                f \in AskedFields /\ LacksValue(upstream[k].href, f)
    /\ \A i \in 1..Len(args.assets) :
          (\A f \in AskedFields : ~LacksValue(args.assets[i].href, f)) =>
              \A k \in 1..Len(upstream) : upstream[k].href # args.assets[i].href
    /\ \A k, l \in 1..Len(upstream) : upstream[k].href = upstream[l].href => k = l

\* A call on an asset without an identifier and one that has its
\* identifier: one update call, for the identifier of the first.
C26_Witness ==
    /\ Len(ret) = 1 /\ ret[1] = ""
    /\ Len(args.assets) >= 2
    /\ \E i, j \in 1..Len(args.assets) :
          /\ get(args.assets[i].metadata, "fn", <<>>) = <<>>
          /\ get(args.assets[j].metadata, "fn", <<>>) = <<"v">>
    /\ Len(upstream) = 1
    /\ DOMAIN upstream[1].metadata = {"fn"}

----------------------------------------------------------------------------
(* C25 *)

----------------------------------------------------------------------------
(* C27 *)

\* The step is a call of filerendition that returned a response.
Rendered == archive' = archive /\ args'.fn = "filerendition" /\ resp'.status = 200

\* The cache key of the call of the step, and its rendition's href.
RenderedKey == reprs_cachekey(args'.asset, args'.traits)
RenderedHref ==
    find_rendition(args'.asset.renditions, args'.traits.profile, args'.traits.size,
                   args'.traits.width, args'.traits.height, args'.traits.original)[1].href

\* C27: filerendition is cache-aside.  On a hit it returns the cached
\* bytes, asks Fotoware for nothing and leaves the cache as it is; on a
\* miss it makes one rendition request and one download, stores the bytes
\* it downloaded under the key and returns them; and after a call that
\* returned, the cache holds the returned bytes under the key, so that the
\* next call for the key is a hit.
C27_CacheAside ==
    /\ [][Rendered =>
            IF persistence_get(cache, RenderedKey) # None
            THEN /\ resp'.content = persistence_get(cache, RenderedKey)
                 /\ upstream' = <<>>
                 /\ cacheops' = <<CacheGet(RenderedKey)>>
                 /\ cache' = cache
            ELSE /\ upstream' = <<RenderRequest(RenderedHref), BinaryRequest(RenderedHref)>>
                 /\ cacheops' = <<CacheGet(RenderedKey), CacheSet(RenderedKey)>>
                 /\ resp'.content = Some(Bytes(args'.asset, RenderedHref))
                 /\ cache' = persistence_set(cache, RenderedKey, resp'.content[1])]_vars
    /\ []((args.fn = "filerendition" /\ resp.status = 200) =>
            persistence_get(cache, reprs_cachekey(args.asset, args.traits)) = resp.content)

\* A call of filerendition was answered from the cache: it returned the
\* bytes the cache holds and made no request of Fotoware.
C27_Witness ==
    /\ args.fn = "filerendition"
    /\ resp.status = 200
    /\ upstream = <<>>
    /\ cacheops = <<CacheGet(reprs_cachekey(args.asset, args.traits))>>
    /\ persistence_get(cache, reprs_cachekey(args.asset, args.traits)) = resp.content

----------------------------------------------------------------------------
(* C28 *)

\* The step is render_asset or resource_preview answering 401.
RejectedUnauthorized ==
    /\ outcome = "pending" /\ outcome' # "pending"
    /\ request.path \in {PathRenderAsset, PathResourcePreview}
    /\ resp'.status = 401

\* C28: when render_asset or resource_preview rejects a request as
\* unauthorized, the binary path was not used for it: the cache was neither
\* read nor written, no rendition was requested and no binary fetched from
\* Fotoware, and no background task was queued.
C28_RejectedBeforeBinaryPath ==
    [][RejectedUnauthorized =>
          /\ cacheops' = <<>>
          /\ cache' = cache
          /\ upstream' = upstream
          /\ background' = background]_vars

\* A request for the original of an asset whose bytes are in the cache was
\* rejected as unauthorized, and the cache was not read.
C28_Witness ==
    /\ Handled
    /\ request.path = PathRenderAsset
    /\ resp.status = 401
    /\ AssetFound
    /\ persistence_get(cache, reprs_cachekey(AskedAsset,
           RenditionTrait(None, Some(TRUE), 0, 0, 0))) # None
    /\ param(request, "original") = Some(TRUE) /\ param(request, "profile") = None
    /\ cacheops = <<>> /\ upstream = <<>>

----------------------------------------------------------------------------
(* C29 *)

\* C29: stream_get_binary asks again until an answer has status 200 and
\* returns the content of that answer at once; when no 200 comes it stops
\* after NUM_CONNECTION_RETRIES retries, NUM_CONNECTION_RETRIES + 1
\* requests in all, and raises HTTP 521; it never makes more requests than
\* that, and it ends whatever Fotoware answers.
C29_PollsUntilOkOrBoundedRetries ==
    /\ [](Len(upstream) <= NUM_CONNECTION_RETRIES + 1)
    /\ [](\A k \in 1..(Len(upstream) - 1) : upstream[k].status # 200)
    /\ [](frames[1].pc = "returned" =>
             /\ upstream[Len(upstream)].status = 200
             /\ ret = <<upstream[Len(upstream)].content>>)
    /\ [](frames[1].pc = "raised" =>
             /\ frames[1].status = 521
             /\ Len(upstream) = NUM_CONNECTION_RETRIES + 1
             /\ upstream[Len(upstream)].status # 200)
    /\ [](frames[1].pc = "get" => ret = <<>>)
    /\ <>(frames[1].pc \in {"returned", "raised"})

\* The sixth request was the first to be answered 200, and its content
\* was returned.
C29_Witness ==
    /\ frames[1].pc = "returned"
    /\ Len(upstream) = NUM_CONNECTION_RETRIES + 1
    /\ frames[1].retries = 0
    /\ ret = <<upstream[NUM_CONNECTION_RETRIES + 1].content>>

----------------------------------------------------------------------------
(* C30 *)

\* The request has a resource parameter that starts with
\* CANONICAL_HOST_BASE.
CanonicalResource ==
    /\ "resource" \in DOMAIN request.query_params
    /\ startswith(request.query_params["resource"], CANONICAL_HOST_BASE)

\* The request with the resource parameter that names the token's subject.
WithResourceOfToken ==
    [request EXCEPT !.query_params =
        [k \in DOMAIN request.query_params \cup {"resource"} |->
            IF k = "resource" THEN getresourceurl(decoded.sub)
            ELSE request.query_params[k]]]

\* C30: the gate takes the identifier from the resource query parameter
\* and from nowhere else: a request without a resource parameter, or with
\* one that does not start with CANONICAL_HOST_BASE, is not authorized
\* whatever token it carries, at the gates of the worker and the webhook
\* as at every other; an authorized request names in its resource
\* parameter the subject of its token.
C30_NoResourceNoAuthorization ==
    /\ (Handled /\ ~CanonicalResource) => outcome # "True"
    /\ (Handled /\ outcome = "True") =>
          request.query_params["resource"] = getresourceurl(decoded.sub)

\* The gate of the worker refused a request without a resource parameter
\* whose token has the right audience and duration: the same request with
\* the resource of the token's subject is authorized.
C30_Witness ==
    /\ Handled
    /\ gate = GateOf(PathWorkerAssignMetadata)
    /\ "resource" \notin DOMAIN request.query_params
    /\ decoded.status = 200
    /\ decoded.aud = gate.aud /\ decoded.dur <= gate.maxdur
    /\ outcome = "HTTP401"
    /\ call(gate, WithResourceOfToken, secret, at, zone) = "True"

====
